---- MODULE Spec2Model ----
(***************************************************************************)
(* Narration synthesis pipeline of handhold (src-tauri/src/tts/*.rs):      *)
(* sentence segmentation, sentence cache, engine adapter with voice        *)
(* fallback, WAV codec, timeline stitcher, bundle store, and the two       *)
(* commands `synthesize` and `export_audio`.                               *)
(*                                                                         *)
(* Conventions.                                                            *)
(*  - A text is a sequence of one-byte characters (strings of length 1,    *)
(*    "VT" stands for U+000B).  Offsets are Rust's 0-based byte offsets.   *)
(*  - f64 values are exact rationals [n |-> _, d |-> _] in lowest terms.   *)
(*  - A file is a record [exists, content].  A TSV / timings file is a     *)
(*    sequence of lines, a line a sequence of tab-separated fields; a      *)
(*    numeric field is a rational, a field that is no number is Junk, the  *)
(*    word field of an alignment row is a sequence of characters.          *)
(*  - hash_text (SHA-256 truncated to 64 bits) is modelled as a tagged     *)
(*    copy of the text: deterministic and collision free.                  *)
(*  - A u32 read from a WAV header is the integer itself below 2^31 and    *)
(*    the i32 with the same bits from 2^31 on; `*` on u32 either panics    *)
(*    (overflow checks) or wraps, by the build.                            *)
(*  - Requests that overlap (SpecRace) interleave at each file operation.  *)
(*  - An engine run is a record [run, wav, tsv]: how the process ended and *)
(*    the two temporary files as the invocation finds them after it.       *)
(***************************************************************************)
EXTENDS Integers, Sequences, FiniteSets, TLC

\* ------------------------------------------------------ a function on its own
VARIABLES
  call,       \* a single function applied to drawn inputs: the function and the inputs
  ret         \* its result

\* ------------------------------------------------------------------ bounds
\* requests started in one behaviour
MaxRequests == 2

\* file writes that fail in one behaviour
MaxWriteFailures == 1

\* engine runs that fail in one behaviour
MaxEngineFailures == 2

\* --------------------------------------------------------------- utilities
None == "none"

Min(a, b) == IF a <= b THEN a ELSE b

Max(a, b) == IF a >= b THEN a ELSE b

Abs(a) == IF a < 0 THEN 0 - a ELSE a

RECURSIVE Gcd(_, _)
Gcd(a, b) == IF b = 0 THEN a ELSE Gcd(b, a % b)

\* division truncating toward zero (Rust `/` on signed integers)
TruncDiv(a, b) == IF a >= 0 THEN a \div b ELSE 0 - ((0 - a) \div b)

Rat(n, d) ==
  LET g == Gcd(Abs(n), Abs(d))
      s == IF d < 0 THEN 0 - 1 ELSE 1
  IN [n |-> (s * n) \div g, d |-> (s * d) \div g]

RatAdd(x, y) == Rat(x.n * y.d + y.n * x.d, x.d * y.d)

RatMul(x, y) == Rat(x.n * y.n, x.d * y.d)

RatLe(x, y) == x.n * y.d <= y.n * x.d

RatZero == [n |-> 0, d |-> 1]

RatInt(k) == [n |-> k, d |-> 1]

\* a field that does not parse as a number
Junk == [n |-> 0, d |-> 0]

IsRat(f) == f.d > 0

Slice(s, from, to) == SubSeq(s, from + 1, to)

Digits == <<"0", "1", "2", "3", "4", "5", "6", "7", "8", "9">>

\* Display of an unsigned integer (`to_string`, `{}`): the decimal digits, most significant first
RECURSIVE ToDecimal(_)
ToDecimal(n) ==
  IF n < 10 THEN <<Digits[n + 1]>> ELSE ToDecimal(n \div 10) \o <<Digits[(n % 10) + 1]>>

\* ------------------------------------------------------------- characters
AsciiWhitespace == {" ", "\t", "\n"}

\* char::is_whitespace also accepts U+000B, u8::is_ascii_whitespace does not
UnicodeWhitespace == AsciiWhitespace \cup {"VT"}

Terminators == {".", "!", "?"}

AsciiPunctuation == {".", "!", "?", ",", "-"}

RECURSIVE TrimStartLen(_)
TrimStartLen(s) ==
  IF s # <<>> /\ Head(s) \in UnicodeWhitespace THEN 1 + TrimStartLen(Tail(s)) ELSE 0

RECURSIVE TrimEndLen(_)
TrimEndLen(s) ==
  IF s # <<>> /\ s[Len(s)] \in UnicodeWhitespace
  THEN 1 + TrimEndLen(SubSeq(s, 1, Len(s) - 1)) ELSE 0

Trim(s) ==
  LET l == TrimStartLen(s)
  IN IF l = Len(s) THEN <<>> ELSE SubSeq(s, l + 1, Len(s) - TrimEndLen(s))

\* ---------------------------------------------------------------- split.rs
\* inner `while i + 1 < len && bytes[i + 1] is a terminator { i += 1 }`
RECURSIVE SkipTerminators(_, _)
SkipTerminators(text, i) ==
  IF i + 1 < Len(text) /\ text[i + 2] \in Terminators
  THEN SkipTerminators(text, i + 1) ELSE i

\* `while i < len && bytes[i].is_ascii_whitespace() { i += 1 }`
RECURSIVE SkipAsciiWhitespace(_, _)
SkipAsciiWhitespace(text, i) ==
  IF i < Len(text) /\ text[i + 1] \in AsciiWhitespace
  THEN SkipAsciiWhitespace(text, i + 1) ELSE i

\* variant of PushSentence that records where the raw slice starts
PushSentenceAtStart(acc, raw, start) ==
  LET trimmed == Trim(raw)
  IN IF trimmed # <<>>
     THEN Append(acc, [off |-> start, text |-> trimmed])
     ELSE acc

\* variant of PushSentence that pushes the raw slice, whitespace included
PushSentenceUntrimmed(acc, raw, start) ==
  IF Trim(raw) # <<>>
  THEN Append(acc, [off |-> start, text |-> raw])
  ELSE acc

\* variant of PushSentence that also pushes an empty sentence
PushSentenceAlways(acc, raw, start) ==
  Append(acc, [off |-> start + TrimStartLen(raw), text |-> Trim(raw)])

\* push (start + leading, trimmed) unless trimmed is empty
PushSentence(acc, raw, start) ==
  LET trimmed == Trim(raw)
  IN IF trimmed # <<>>
     THEN Append(acc, [off |-> start + TrimStartLen(raw), text |-> trimmed])
     ELSE acc

RECURSIVE SplitLoop(_, _, _, _)
SplitLoop(text, i, start, acc) ==
  IF i >= Len(text)
  THEN PushSentence(acc, Slice(text, start, Len(text)), start)
  ELSE IF text[i + 1] \in Terminators
       THEN LET j == SkipTerminators(text, i)
            IN IF j + 1 >= Len(text) \/ text[j + 2] \in AsciiWhitespace
               THEN LET k == SkipAsciiWhitespace(text, j + 1)
                    IN SplitLoop(text, k, k,
                                 PushSentence(acc, Slice(text, start, j + 1), start))
               ELSE SplitLoop(text, j + 1, start, acc)
       ELSE SplitLoop(text, i + 1, start, acc)

split_sentences(text) == SplitLoop(text, 0, 0, <<>>)

\* --------------------------------------------------------------- timing.rs
RECURSIVE SkipWhitespace(_, _)
SkipWhitespace(text, i) ==
  IF i < Len(text) /\ text[i + 1] \in UnicodeWhitespace
  THEN SkipWhitespace(text, i + 1) ELSE i

RECURSIVE SkipWord(_, _)
SkipWord(text, i) ==
  IF i < Len(text) /\ text[i + 1] \notin UnicodeWhitespace
  THEN SkipWord(text, i + 1) ELSE i

RECURSIVE WordsLoop(_, _, _)
WordsLoop(text, i, acc) ==
  LET ws == SkipWhitespace(text, i)
  IN IF ws >= Len(text)
     THEN acc
     ELSE WordsLoop(text, SkipWord(text, ws),
                    Append(acc, [index |-> Len(acc), char_offset |-> ws]))

extract_input_words(text) == WordsLoop(text, 0, <<>>)

\* f64 field parse with `.unwrap_or(0.0)`
ParseF64Or0(f) == IF IsRat(f) THEN f ELSE RatZero

\* a word field is a sequence of characters; `all` holds of the empty word
AllPunctuation(word) == \A k \in 1..Len(word) : word[k] \in AsciiPunctuation

RECURSIVE ParseTsvLines(_)
ParseTsvLines(lines) ==
  IF lines = <<>> THEN <<>>
  ELSE LET cols == Head(lines)
           rest == ParseTsvLines(Tail(lines))
       IN IF Len(cols) < 3 THEN rest
          ELSE IF AllPunctuation(cols[1]) THEN rest
          ELSE <<[word |-> cols[1],
                  start |-> ParseF64Or0(cols[2]),
                  end |-> ParseF64Or0(cols[3])]>> \o rest

\* `tsv_content.lines().skip(1)`: the first line is a header
parse_tsv_words(tsv_content) ==
  IF tsv_content = <<>> THEN <<>> ELSE ParseTsvLines(Tail(tsv_content))

\* variant of text_word_at that drops the punctuation at the end of the word,
\* as the engine's rows spell it
RECURSIVE StripPunctuation(_)
StripPunctuation(word) ==
  IF word # <<>> /\ word[Len(word)] \in AsciiPunctuation
  THEN StripPunctuation(SubSeq(word, 1, Len(word) - 1)) ELSE word

text_word_at_normalized(text, offset) ==
  IF offset > Len(text) THEN [panic |-> TRUE, word |-> <<>>]
  ELSE LET ws == SkipWhitespace(text, offset)
       IN [panic |-> FALSE, word |-> StripPunctuation(Slice(text, ws, SkipWord(text, ws)))]

\* `text[offset..]` panics when offset is past the end of the text
text_word_at(text, offset) ==
  IF offset > Len(text) THEN [panic |-> TRUE, word |-> <<>>]
  ELSE LET ws == SkipWhitespace(text, offset)
       IN [panic |-> FALSE, word |-> Slice(text, ws, SkipWord(text, ws))]

\* ------------------------------------------------------------------ wav.rs
WAV_FORMAT_PCM == 1

WAV_CHANNELS_MONO == 1

WAV_BITS_PER_SAMPLE == 16

WAV_BLOCK_ALIGN == (WAV_BITS_PER_SAMPLE \div 8) * WAV_CHANNELS_MONO

WAV_FMT_CHUNK_SIZE == 16

WAV_HEADER_LEN == 44

\* ASCII chunk identifiers
RIFF == <<82, 73, 70, 70>>

WAVE == <<87, 65, 86, 69>>

FMT == <<102, 109, 116, 32>>

DATA == <<100, 97, 116, 97>>

U16LE(x) == <<x % 256, (x \div 256) % 256>>

U32LE(x) == <<x % 256, (x \div 256) % 256, (x \div 65536) % 256, (x \div 16777216) % 256>>

\* little-endian reads at 0-based offset `at`
ReadU16(b, at) == b[at + 1] + 256 * b[at + 2]

\* A u32 below 2^31 is the integer itself; one at or above 2^31 is held as the
\* i32 with the same 32 bits (a negative integer), so that all 2^32 values
\* exist.  U32LE yields the same four bytes for both.
U32FromHalves(hi, lo) == (IF hi >= 32768 THEN hi - 65536 ELSE hi) * 65536 + lo

ReadU32(b, at) == U32FromHalves(ReadU16(b, at + 2), ReadU16(b, at))

\* `x < k` for a u32 x and a small k
U32Lt(x, k) == x >= 0 /\ x < k

\* `a * k` in u32 for a small k: the low 32 bits of the product, and whether the
\* product needed more (overflow checks panic there, other builds wrap)
MulU32(a, k) ==
  LET lo == (a % 65536) * k
      hi == ((a \div 65536) % 65536) * k + (lo \div 65536)
  IN [v |-> U32FromHalves(hi % 65536, lo % 65536), overflow |-> hi >= 65536]

ReadI16(b, at) == LET u == ReadU16(b, at) IN IF u >= 32768 THEN u - 65536 ELSE u

I16LE(v) == U16LE((v + 65536) % 65536)

\* variant of wav_wrap whose RIFF size counts the whole file
wav_wrap_whole_file(pcm, sample_rate) ==
  LET data_len == Len(pcm)
      file_len == WAV_HEADER_LEN + data_len
      byte_rate == MulU32(sample_rate, WAV_BLOCK_ALIGN).v
  IN RIFF \o U32LE(file_len) \o WAVE \o FMT \o U32LE(WAV_FMT_CHUNK_SIZE)
       \o U16LE(WAV_FORMAT_PCM) \o U16LE(WAV_CHANNELS_MONO) \o U32LE(sample_rate)
       \o U32LE(byte_rate) \o U16LE(WAV_BLOCK_ALIGN) \o U16LE(WAV_BITS_PER_SAMPLE)
       \o DATA \o U32LE(data_len) \o pcm

wav_wrap(pcm, sample_rate) ==
  LET data_len == Len(pcm)
      file_len == (WAV_HEADER_LEN - 8) + data_len
      byte_rate == MulU32(sample_rate, WAV_BLOCK_ALIGN).v
  IN RIFF \o U32LE(file_len) \o WAVE \o FMT \o U32LE(WAV_FMT_CHUNK_SIZE)
       \o U16LE(WAV_FORMAT_PCM) \o U16LE(WAV_CHANNELS_MONO) \o U32LE(sample_rate)
       \o U32LE(byte_rate) \o U16LE(WAV_BLOCK_ALIGN) \o U16LE(WAV_BITS_PER_SAMPLE)
       \o DATA \o U32LE(data_len) \o pcm

\* `sample_rate * WAV_BLOCK_ALIGN as u32` does not fit: a build with overflow
\* checks panics in wav_wrap, a build without them wraps
wav_wrap_overflows(pcm, sample_rate) == MulU32(sample_rate, WAV_BLOCK_ALIGN).overflow

WavErr(msg) ==
  [ok |-> FALSE, err |-> msg, format |-> 0, num_channels |-> 0, sample_rate |-> 0,
   bits_per_sample |-> 0, data |-> <<>>]

\* `(chunk_start + chunk_size).min(wav_bytes.len())`; usize has 64 bits, so the
\* sum of an offset into the buffer and a u32 does not overflow
ChunkEnd(b, chunk_start, chunk_size) ==
  IF U32Lt(chunk_size, Len(b)) THEN Min(chunk_start + chunk_size, Len(b)) ELSE Len(b)

\* the fields of a fmt chunk that starts at `chunk_start`
FmtFields(b, chunk_start, st) ==
  [st EXCEPT !.has_fmt = TRUE,
             !.format = ReadU16(b, chunk_start),
             !.num_channels = ReadU16(b, chunk_start + 2),
             !.sample_rate = ReadU32(b, chunk_start + 4),
             !.bits_per_sample = ReadU16(b, chunk_start + 14)]

\* what the Options hold after the walk
ChunksDone(st) ==
  IF ~st.has_fmt THEN WavErr("Missing WAV fmt chunk")
  ELSE IF ~st.has_data THEN WavErr("Missing WAV data chunk")
  ELSE IF st.num_channels = 0 THEN WavErr("WAV has zero channels")
  ELSE [ok |-> TRUE, err |-> "", format |-> st.format,
        num_channels |-> st.num_channels, sample_rate |-> st.sample_rate,
        bits_per_sample |-> st.bits_per_sample, data |-> st.data]

\* variant of NextOffset that does not skip the pad byte of an odd-sized chunk
NextOffsetUnpadded(chunk_end, chunk_size) == chunk_end

\* `offset = chunk_end + (chunk_size % 2)`
NextOffset(chunk_end, chunk_size) == chunk_end + (chunk_size % 2)

\* the `while offset + 8 <= wav_bytes.len()` chunk walk; `st` holds the Options
RECURSIVE ChunkLoop(_, _, _)
ChunkBody(b, chunk_id, chunk_size, chunk_start, chunk_end, st) ==
  IF chunk_id = FMT
  THEN IF U32Lt(chunk_size, 16) \/ chunk_end < chunk_start + 16
       THEN WavErr("WAV fmt chunk too small")
       ELSE ChunkLoop(b, NextOffset(chunk_end, chunk_size), FmtFields(b, chunk_start, st))
  ELSE IF chunk_id = DATA
  THEN ChunkLoop(b, NextOffset(chunk_end, chunk_size),
                 [st EXCEPT !.has_data = TRUE, !.data = Slice(b, chunk_start, chunk_end)])
  ELSE ChunkLoop(b, NextOffset(chunk_end, chunk_size), st)

ChunkHead(b, offset, chunk_size, st) ==
  ChunkBody(b, Slice(b, offset, offset + 4), chunk_size, offset + 8,
            ChunkEnd(b, offset + 8, chunk_size), st)

ChunkLoop(b, offset, st) ==
  IF offset + 8 > Len(b) THEN ChunksDone(st)
  ELSE ChunkHead(b, offset, ReadU32(b, offset + 4), st)

parse_wav_chunks(b) ==
  IF Len(b) < 12 THEN WavErr("WAV too short to contain RIFF header")
  ELSE IF Slice(b, 0, 4) # RIFF \/ Slice(b, 8, 12) # WAVE
  THEN WavErr("Invalid RIFF/WAVE header")
  ELSE ChunkLoop(b, 12, [has_fmt |-> FALSE, has_data |-> FALSE, format |-> 0,
                         num_channels |-> 0, sample_rate |-> 0,
                         bits_per_sample |-> 0, data |-> <<>>])

PcmErr(msg) == [ok |-> FALSE, err |-> msg, pcm |-> <<>>, sample_rate |-> 0]

RECURSIVE SumI16(_, _, _)
SumI16(data, at, n) == IF n = 0 THEN 0 ELSE ReadI16(data, at) + SumI16(data, at + 2, n - 1)

\* variant of the frame loop whose average rounds down instead of toward zero
RECURSIVE Pcm16FramesFloored(_, _, _)
Pcm16FramesFloored(data, at, num_channels) ==
  IF at + 2 * num_channels > Len(data) THEN <<>>
  ELSE I16LE(SumI16(data, at, num_channels) \div num_channels)
         \o Pcm16FramesFloored(data, at + 2 * num_channels, num_channels)

\* one output sample per complete frame (`chunks_exact`)
RECURSIVE Pcm16Frames(_, _, _)
Pcm16Frames(data, at, num_channels) ==
  IF at + 2 * num_channels > Len(data) THEN <<>>
  ELSE I16LE(TruncDiv(SumI16(data, at, num_channels), num_channels))
         \o Pcm16Frames(data, at + 2 * num_channels, num_channels)

\* variant of pcm16_to_mono without the `data.len() < frame_bytes` return
pcm16_to_mono_any_length(data, num_channels, sample_rate) ==
  [ok |-> TRUE, err |-> "", pcm |-> Pcm16Frames(data, 0, num_channels),
   sample_rate |-> sample_rate]

pcm16_to_mono(data, num_channels, sample_rate) ==
  IF Len(data) < num_channels * 2 THEN PcmErr("WAV data chunk too small")
  ELSE [ok |-> TRUE, err |-> "", pcm |-> Pcm16Frames(data, 0, num_channels),
        sample_rate |-> sample_rate]

Pow2(k) == 2 ^ k

\* f32 from 4 little-endian bytes, exact for the values whose 16 low mantissa
\* bits are zero and whose exponent lies in 120..134; zero otherwise
ReadF32(b, at) ==
  LET sign == IF b[at + 4] >= 128 THEN 0 - 1 ELSE 1
      exp == (b[at + 4] % 128) * 2 + (b[at + 3] \div 128)
      mant == 128 + (b[at + 3] % 128)
  IN IF exp < 120 \/ exp > 134 THEN RatZero
     ELSE Rat(sign * mant * Pow2(exp - 120), Pow2(14))

RECURSIVE SumF32(_, _, _)
SumF32(data, at, n) ==
  IF n = 0 THEN RatZero ELSE RatAdd(ReadF32(data, at), SumF32(data, at + 4, n - 1))

Clamp1(x) ==
  IF RatLe(x, RatInt(0 - 1)) THEN RatInt(0 - 1)
  ELSE IF RatLe(RatInt(1), x) THEN RatInt(1) ELSE x

\* `(mono * 32767.0) as i16`
ScaleToI16(x) == TruncDiv(x.n * 32767, x.d)

RECURSIVE Float32Frames(_, _, _)
Float32Frames(data, at, num_channels) ==
  IF at + 4 * num_channels > Len(data) THEN <<>>
  ELSE I16LE(ScaleToI16(Clamp1(RatMul(SumF32(data, at, num_channels),
                                      Rat(1, num_channels)))))
         \o Float32Frames(data, at + 4 * num_channels, num_channels)

\* variant of float32_to_mono without the check of the data length
float32_to_mono_any_length(data, num_channels, sample_rate) ==
  [ok |-> TRUE, err |-> "", pcm |-> Float32Frames(data, 0, num_channels),
   sample_rate |-> sample_rate]

float32_to_mono(data, num_channels, sample_rate) ==
  IF Len(data) < num_channels * 4 THEN PcmErr("WAV data chunk too small")
  ELSE [ok |-> TRUE, err |-> "", pcm |-> Float32Frames(data, 0, num_channels),
        sample_rate |-> sample_rate]

WAVE_FORMAT_IEEE_FLOAT == 3

\* the characters of a sequence as one string
RECURSIVE Join(_)
Join(chars) == IF chars = <<>> THEN "" ELSE Head(chars) \o Join(Tail(chars))

\* format!("Unsupported WAV format: format={format} bits={bits_per_sample}")
UnsupportedFormat(format, bits_per_sample) ==
  "Unsupported WAV format: format=" \o Join(ToDecimal(format))
    \o " bits=" \o Join(ToDecimal(bits_per_sample))

WAVE_FORMAT_EXTENSIBLE == 65534

\* variant of wav_to_int16_pcm that decodes by bit depth alone
wav_to_int16_pcm_by_bits(wav_bytes) ==
  LET w == parse_wav_chunks(wav_bytes)
  IN IF ~w.ok THEN PcmErr(w.err)
     ELSE IF w.bits_per_sample = 16
     THEN pcm16_to_mono(w.data, w.num_channels, w.sample_rate)
     ELSE IF w.bits_per_sample = 32
     THEN float32_to_mono(w.data, w.num_channels, w.sample_rate)
     ELSE PcmErr(UnsupportedFormat(w.format, w.bits_per_sample))

wav_to_int16_pcm(wav_bytes) ==
  LET w == parse_wav_chunks(wav_bytes)
  IN IF ~w.ok THEN PcmErr(w.err)
     ELSE IF w.format = WAV_FORMAT_PCM /\ w.bits_per_sample = 16
     THEN pcm16_to_mono(w.data, w.num_channels, w.sample_rate)
     ELSE IF w.format = WAVE_FORMAT_IEEE_FLOAT /\ w.bits_per_sample = 32
     THEN float32_to_mono(w.data, w.num_channels, w.sample_rate)
     ELSE IF w.format = WAVE_FORMAT_EXTENSIBLE /\ w.bits_per_sample = 16
     THEN pcm16_to_mono(w.data, w.num_channels, w.sample_rate)
     ELSE IF w.format = WAVE_FORMAT_EXTENSIBLE /\ w.bits_per_sample = 32
     THEN float32_to_mono(w.data, w.num_channels, w.sample_rate)
     ELSE PcmErr(UnsupportedFormat(w.format, w.bits_per_sample))

\* --------------------------------------------------------- timing.rs: stitch
\* variant of SentenceDurationMs that forgets the two bytes per sample
SentenceDurationMsPerByte(c) == Rat(Len(c.pcm) * 1000, c.sample_rate)

SentenceDurationMs(c) == Rat(Len(c.pcm) * 1000, 2 * c.sample_rate)

\* `sentences.iter().find(|(start, _)| start == sentence_char_start)`
RECURSIVE FindSentenceEnd(_, _, _)
FindSentenceEnd(sentences, char_start, text_len) ==
  IF sentences = <<>> THEN text_len
  ELSE IF Head(sentences).off = char_start
       THEN Head(sentences).off + Len(Head(sentences).text)
       ELSE FindSentenceEnd(Tail(sentences), char_start, text_len)

\* variant of WordsInSpan without the lower end: the words before `to`
RECURSIVE WordsBefore(_, _, _)
WordsBefore(words, from, to) ==
  IF words = <<>> THEN <<>>
  ELSE LET rest == WordsBefore(Tail(words), from, to)
       IN IF Head(words).char_offset < to THEN <<Head(words)>> \o rest ELSE rest

\* the input words whose offset lies in [from, to)
RECURSIVE WordsInSpan(_, _, _)
WordsInSpan(words, from, to) ==
  IF words = <<>> THEN <<>>
  ELSE LET rest == WordsInSpan(Tail(words), from, to)
       IN IF Head(words).char_offset >= from /\ Head(words).char_offset < to
          THEN <<Head(words)>> \o rest ELSE rest

Timing(iw, start_ms, end_ms) ==
  [word_index |-> iw.index, char_offset |-> iw.char_offset,
   start_ms |-> start_ms, end_ms |-> end_ms]

\* variant of RowTimings in which the words left over take the last row
RowTimingsRepeatingLast(local, rows, time_offset_ms) ==
  [i \in 1..Len(local) |->
     Timing(local[i],
            RatAdd(RatMul(rows[Min(i, Len(rows))].start, RatInt(1000)), time_offset_ms),
            RatAdd(RatMul(rows[Min(i, Len(rows))].end, RatInt(1000)), time_offset_ms))]

\* local word i takes alignment row i, by position
RowTimings(local, rows, time_offset_ms) ==
  [i \in 1..Min(Len(local), Len(rows)) |->
     Timing(local[i],
            RatAdd(RatMul(rows[i].start, RatInt(1000)), time_offset_ms),
            RatAdd(RatMul(rows[i].end, RatInt(1000)), time_offset_ms))]

\* variant of InterpolatedTimings whose slices are counted from 1
InterpolatedTimingsFromOne(local, duration_ms, time_offset_ms) ==
  LET word_count == Max(Len(local), 1)
  IN [i \in 1..Len(local) |->
        Timing(local[i],
               RatAdd(RatMul(Rat(i, word_count), duration_ms), time_offset_ms),
               RatAdd(RatMul(Rat(i + 1, word_count), duration_ms), time_offset_ms))]

\* uniform interpolation over the sentence's PCM-derived duration
InterpolatedTimings(local, duration_ms, time_offset_ms) ==
  LET word_count == Max(Len(local), 1)
  IN [i \in 1..Len(local) |->
        Timing(local[i],
               RatAdd(RatMul(Rat(i - 1, word_count), duration_ms), time_offset_ms),
               RatAdd(RatMul(Rat(i, word_count), duration_ms), time_offset_ms))]

SentenceTimings(text, sentences, r, time_offset_ms) ==
  LET tsv_words == parse_tsv_words(r.c.tsv_content)
      sentence_byte_end == FindSentenceEnd(sentences, r.off, Len(text))
      local == WordsInSpan(extract_input_words(text), r.off, sentence_byte_end)
  IN IF tsv_words # <<>>
     THEN RowTimings(local, tsv_words, time_offset_ms)
     ELSE InterpolatedTimings(local, SentenceDurationMs(r.c), time_offset_ms)

\* `for (sentence_char_start, cached) in sentence_results` with its accumulators
RECURSIVE StitchLoop(_, _, _, _)
StitchLoop(text, sentences, results, acc) ==
  IF results = <<>> THEN acc
  ELSE LET r == Head(results)
       IN StitchLoop(text, sentences, Tail(results),
            [combined_pcm |-> acc.combined_pcm \o r.c.pcm,
             all_timings |-> acc.all_timings
                               \o SentenceTimings(text, sentences, r, acc.time_offset_ms),
             time_offset_ms |-> RatAdd(acc.time_offset_ms, SentenceDurationMs(r.c))])

DEFAULT_SAMPLE_RATE == 24000

\* variant of stitch_sentences without the `combined_pcm.is_empty()` return
stitch_sentences_allowing_empty(text, sentences, sentence_results) ==
  LET sample_rate == IF sentence_results = <<>> THEN DEFAULT_SAMPLE_RATE
                     ELSE Head(sentence_results).c.sample_rate
      acc == StitchLoop(text, sentences, sentence_results,
                        [combined_pcm |-> <<>>, all_timings |-> <<>>,
                         time_offset_ms |-> RatZero])
  IN [ok |-> TRUE, err |-> "", pcm |-> acc.combined_pcm, sample_rate |-> sample_rate,
      timings |-> acc.all_timings, duration_ms |-> acc.time_offset_ms]

\* variant of stitch_sentences that takes the sample rate of the last sentence
stitch_sentences_last_rate(text, sentences, sentence_results) ==
  LET sample_rate == IF sentence_results = <<>> THEN DEFAULT_SAMPLE_RATE
                     ELSE sentence_results[Len(sentence_results)].c.sample_rate
      acc == StitchLoop(text, sentences, sentence_results,
                        [combined_pcm |-> <<>>, all_timings |-> <<>>,
                         time_offset_ms |-> RatZero])
  IN IF acc.combined_pcm = <<>>
     THEN [ok |-> FALSE, err |-> "No audio produced for any sentence", pcm |-> <<>>,
           sample_rate |-> sample_rate, timings |-> <<>>, duration_ms |-> RatZero]
     ELSE [ok |-> TRUE, err |-> "", pcm |-> acc.combined_pcm, sample_rate |-> sample_rate,
           timings |-> acc.all_timings, duration_ms |-> acc.time_offset_ms]

stitch_sentences(text, sentences, sentence_results) ==
  LET sample_rate == IF sentence_results = <<>> THEN DEFAULT_SAMPLE_RATE
                     ELSE Head(sentence_results).c.sample_rate
      acc == StitchLoop(text, sentences, sentence_results,
                        [combined_pcm |-> <<>>, all_timings |-> <<>>,
                         time_offset_ms |-> RatZero])
  IN IF acc.combined_pcm = <<>>
     THEN [ok |-> FALSE, err |-> "No audio produced for any sentence", pcm |-> <<>>,
           sample_rate |-> sample_rate, timings |-> <<>>, duration_ms |-> RatZero]
     ELSE [ok |-> TRUE, err |-> "", pcm |-> acc.combined_pcm, sample_rate |-> sample_rate,
           timings |-> acc.all_timings, duration_ms |-> acc.time_offset_ms]

\* -------------------------------------------------------------------- files
NoFile(dflt) == [exists |-> FALSE, content |-> dflt]

File(c) == [exists |-> TRUE, content |-> c]

\* `let _ = std::fs::write(path, content)`: the write takes effect ("ok"), fails
\* before the file is opened ("fail"), or fails after the file was created and
\* truncated ("trunc").  The pipeline draws from WriteOutcomes; truncated files
\* enter it through the bundle directories of ShippedBundles.
WriteOutcomes == {"ok", "fail"}

\* the outcome vectors of n writes of which at most `budget` do not take effect
WriteVectors(n, budget) ==
  {w \in [1..n -> WriteOutcomes] : Cardinality({i \in 1..n : w[i] # "ok"}) <= budget}

FailedWrites(w) == Cardinality({i \in DOMAIN w : w[i] # "ok"})

FsWrite(old, content, empty, outcome) ==
  IF outcome = "ok" THEN File(content)
  ELSE IF outcome = "trunc" THEN File(empty)
  ELSE old

\* ----------------------------------------------------------------- cache.rs
\* variant of hash_text keyed per process, as a hasher built from RandomState is
hash_text_seeded(text) == <<"siphash/seeded", call.runs[Len(ret.keys) + 1].process, text>>

\* SHA-256 of the bytes, of which the first 8 are kept: the text, tagged
hash_text(text) == <<"sha256/64", text>>

NoCacheEntry == [pcm |-> NoFile(<<>>), meta |-> NoFile(<<>>), tsv |-> NoFile(<<>>)]

CachedSentence(pcm, sample_rate, tsv_content) ==
  [pcm |-> pcm, sample_rate |-> sample_rate, tsv_content |-> tsv_content]

DigitValue(ch) == CHOOSE v \in 0..9 : Digits[v + 1] = ch

IsDigit(ch) == \E v \in 0..9 : Digits[v + 1] = ch

RECURSIVE DecimalValue(_)
DecimalValue(ds) ==
  IF ds = <<>> THEN 0 ELSE 10 * DecimalValue(SubSeq(ds, 1, Len(ds) - 1)) + DigitValue(ds[Len(ds)])

\* the digit string is at most u32::MAX = 4294967295, compared digit by digit
RECURSIVE DigitsLe(_, _)
DigitsLe(a, b) ==
  IF a = <<>> THEN TRUE
  ELSE IF DigitValue(Head(a)) # DigitValue(Head(b)) THEN DigitValue(Head(a)) < DigitValue(Head(b))
  ELSE DigitsLe(Tail(a), Tail(b))

U32_MAX_DIGITS == <<"4", "2", "9", "4", "9", "6", "7", "2", "9", "5">>

RECURSIVE StripZeros(_)
StripZeros(ds) == IF Len(ds) > 1 /\ Head(ds) = "0" THEN StripZeros(Tail(ds)) ELSE ds

\* `meta.trim().parse::<u32>()`: an optional `+`, then one or more digits that
\* do not exceed u32::MAX
ParseU32(chars) ==
  LET t == Trim(chars)
      ds == IF t # <<>> /\ Head(t) = "+" THEN Tail(t) ELSE t
      sig == StripZeros(ds)
  IN IF ds = <<>> \/ \E k \in 1..Len(ds) : ~IsDigit(ds[k])
     THEN [ok |-> FALSE, v |-> 0]
     ELSE IF Len(sig) > Len(U32_MAX_DIGITS)
               \/ (Len(sig) = Len(U32_MAX_DIGITS) /\ ~DigitsLe(sig, U32_MAX_DIGITS))
     THEN [ok |-> FALSE, v |-> 0]
     ELSE [ok |-> TRUE, v |-> DecimalValue(sig)]

CacheMiss == [some |-> FALSE, c |-> CachedSentence(<<>>, 0, <<>>)]

\* variant of CacheEntryRead that treats an empty PCM file as a miss
CacheEntryReadNonEmpty(files, rate) ==
  IF ~rate.ok \/ files.pcm.content = <<>> THEN CacheMiss
  ELSE [some |-> TRUE,
        c |-> CachedSentence(files.pcm.content, rate.v,
                             IF files.tsv.exists THEN files.tsv.content ELSE <<>>)]

\* `let sample_rate: u32 = meta.trim().parse().ok()?` and the entry built after it
CacheEntryRead(files, rate) ==
  IF ~rate.ok THEN CacheMiss
  ELSE [some |-> TRUE,
        c |-> CachedSentence(files.pcm.content, rate.v,
                             IF files.tsv.exists THEN files.tsv.content ELSE <<>>)]

\* variant of cache_hit that finds nothing
cache_hit_never(files) == CacheMiss

\* Option<CachedSentence>
cache_hit(files) ==
  IF ~files.pcm.exists \/ ~files.meta.exists THEN CacheMiss
  ELSE CacheEntryRead(files, ParseU32(files.meta.content))

\* three independent best-effort writes; `w` gives the outcome of each
cache_write(files, pcm, sample_rate, tsv_content, w) ==
  [pcm |-> FsWrite(files.pcm, pcm, <<>>, w[1]),
   meta |-> FsWrite(files.meta, ToDecimal(sample_rate), <<>>, w[2]),
   tsv |-> FsWrite(files.tsv, tsv_content, <<>>, w[3])]

\* ---------------------------------------------------------------- bundle.rs
NoBundle == [wav |-> NoFile(<<>>), timings |-> NoFile(<<>>)]

IsUsize(f) == IsRat(f) /\ f.d = 1 /\ f.n >= 0

\* lines with fewer than four fields are skipped; a field that does not parse
\* makes the whole lookup a miss (`.ok()?`)
RECURSIVE ParseTimingLines(_)
ParseTimingLines(lines) ==
  IF lines = <<>> THEN [ok |-> TRUE, timings |-> <<>>]
  ELSE LET cols == Head(lines)
           rest == ParseTimingLines(Tail(lines))
       IN IF Len(cols) < 4 THEN rest
          ELSE IF ~IsUsize(cols[1]) \/ ~IsUsize(cols[2]) \/ ~IsRat(cols[3]) \/ ~IsRat(cols[4])
          THEN [ok |-> FALSE, timings |-> <<>>]
          ELSE IF ~rest.ok THEN rest
          ELSE [ok |-> TRUE,
                timings |-> <<[word_index |-> cols[1].n, char_offset |-> cols[2].n,
                               start_ms |-> cols[3], end_ms |-> cols[4]]>> \o rest.timings]

NoBundledAudio == [some |-> FALSE, wav_bytes |-> <<>>, timings |-> <<>>, duration_ms |-> RatZero]

\* Option<BundledAudio>
bundle_hit(files) ==
  IF ~files.wav.exists \/ ~files.timings.exists THEN NoBundledAudio
  ELSE LET t == ParseTimingLines(files.timings.content)
           w == parse_wav_chunks(files.wav.content)
       IN IF ~t.ok \/ ~w.ok THEN NoBundledAudio
          ELSE [some |-> TRUE, wav_bytes |-> files.wav.content, timings |-> t.timings,
                duration_ms |-> Rat(Len(w.data) * 1000, 2 * w.sample_rate)]

\* `{wi}\t{co}\t{start}\t{end}\n` per timing
FormatTimings(timings) ==
  [i \in 1..Len(timings) |->
     <<RatInt(timings[i].word_index), RatInt(timings[i].char_offset),
       timings[i].start_ms, timings[i].end_ms>>]

\* two independent best-effort writes; `w` gives the outcome of each
bundle_write(files, wav, timings, w) ==
  [wav |-> FsWrite(files.wav, wav, <<>>, w[1]),
   timings |-> FsWrite(files.timings, FormatTimings(timings), <<>>, w[2])]

\* ----------------------------------------------------------------- synth.rs
DEFAULT_KOKORO_VOICE == "am_michael"

FALLBACK_KOKORO_VOICE == "bf_emma"

\* `std::env::var("HANDHOLD_TTS_VOICE").unwrap_or_else(|_| DEFAULT_KOKORO_VOICE)`
resolve_kokoro_voice(env) == IF env = None THEN DEFAULT_KOKORO_VOICE ELSE env

\* resolve_koko_binary()? fails when no candidate executable exists ("no_binary");
\* the models directory falls back to a created application directory, so missing
\* model files do not fail the resolution but the engine runs that follow
resolve_koko_context(eng) == eng = "ready"

SynthErr(msgs) == [ok |-> FALSE, err |-> msgs, c |-> CachedSentence(<<>>, 0, <<>>)]

\* one engine run `out` = [run, wav, tsv]: how the process ended and the two
\* temporary files it left
synthesize_sentence_with_voice(out) ==
  IF out.run = "spawn_fail" THEN SynthErr(<<"Failed to run koko">>)
  ELSE IF out.run = "exit_fail" THEN SynthErr(<<"koko failed (exit)">>)
  ELSE IF ~out.wav.exists THEN SynthErr(<<"Failed to read koko output">>)
  ELSE IF out.wav.content = <<>> THEN SynthErr(<<"koko produced no audio output">>)
  ELSE LET d == wav_to_int16_pcm(out.wav.content)
       IN IF ~d.ok THEN SynthErr(<<d.err>>)
          ELSE [ok |-> TRUE, err |-> <<>>,
                c |-> CachedSentence(d.pcm, d.sample_rate,
                                     IF out.tsv.exists THEN out.tsv.content ELSE <<>>)]

\* the two temporary files when synthesize_sentence_with_voice returns, given
\* what the engine run left: `remove_file` is called on both on a failed exit
\* and after both were read; the `?` of a failed spawn and the `?` of a failed
\* read of the audio file return before it
tmp_files_left(out) ==
  IF out.run = "spawn_fail" THEN [wav |-> out.wav, tsv |-> out.tsv]
  ELSE IF out.run = "exit_fail" THEN [wav |-> NoFile(<<>>), tsv |-> NoFile(<<>>)]
  ELSE IF ~out.wav.exists THEN [wav |-> out.wav, tsv |-> out.tsv]
  ELSE [wav |-> NoFile(<<>>), tsv |-> NoFile(<<>>)]

\* variant of synthesize_sentence without the `primary == FALLBACK_KOKORO_VOICE`
\* early return: a failing fallback voice is retried as its own fallback
synthesize_sentence_always_retries(primary, out1, out2) ==
  LET r1 == synthesize_sentence_with_voice(out1)
  IN IF r1.ok THEN [r |-> r1, voices |-> <<primary>>, runs |-> <<TRUE>>,
           left |-> <<tmp_files_left(out1)>>]
     ELSE LET r2 == synthesize_sentence_with_voice(out2)
          IN IF r2.ok
             THEN [r |-> r2, voices |-> <<primary, FALLBACK_KOKORO_VOICE>>,
                   runs |-> <<FALSE, TRUE>>,
                   left |-> <<tmp_files_left(out1), tmp_files_left(out2)>>]
             ELSE [r |-> SynthErr(r1.err \o r2.err),
                   voices |-> <<primary, FALLBACK_KOKORO_VOICE>>,
                   runs |-> <<FALSE, FALSE>>,
                   left |-> <<tmp_files_left(out1), tmp_files_left(out2)>>]

\* out1 is the engine run for the primary voice, out2 the run for the fallback
\* voice (used only when the fallback is invoked): how the process ended and
\* the temporary files as the invocation finds them after it; `voices` lists
\* the invocations, `left` the temporary files each one returned with
synthesize_sentence(primary, out1, out2) ==
  LET r1 == synthesize_sentence_with_voice(out1)
  IN IF r1.ok THEN [r |-> r1, voices |-> <<primary>>, runs |-> <<TRUE>>,
           left |-> <<tmp_files_left(out1)>>]
     ELSE IF primary = FALLBACK_KOKORO_VOICE
     THEN [r |-> r1, voices |-> <<primary>>, runs |-> <<FALSE>>,
           left |-> <<tmp_files_left(out1)>>]
     ELSE LET r2 == synthesize_sentence_with_voice(out2)
          IN IF r2.ok
             THEN [r |-> r2, voices |-> <<primary, FALLBACK_KOKORO_VOICE>>,
                   runs |-> <<FALSE, TRUE>>,
                   left |-> <<tmp_files_left(out1), tmp_files_left(out2)>>]
             ELSE [r |-> SynthErr(r1.err \o r2.err),
                   voices |-> <<primary, FALLBACK_KOKORO_VOICE>>,
                   runs |-> <<FALSE, FALSE>>,
                   left |-> <<tmp_files_left(out1), tmp_files_left(out2)>>]

\* the fallback voice is invoked for a sentence whose primary run is out1
FallbackRuns(primary, out1) == Len(synthesize_sentence(primary, out1, out1).voices) = 2

\* -------------------------------------------------------------- the universe
T_EMPTY == <<>>

\* "a."
T_ONE == <<"a", ".">>

\* "a. a."
T_REPEAT == <<"a", ".", " ", "a", ".">>

\* "a b. a."
T_TWO == <<"a", " ", "b", ".", " ", "a", ".">>

Texts == {T_EMPTY, T_REPEAT, T_TWO}

\* the lists given to export_audio: empty, one text, two different texts, the
\* same text twice, and a text that has no sentence before or after another
TextLists ==
  {<<>>, <<T_TWO>>, <<T_REPEAT, T_TWO>>, <<T_TWO, T_TWO>>, <<T_EMPTY, T_TWO>>,
   <<T_REPEAT, T_EMPTY>>}

BundleKeys == {hash_text(t) : t \in Texts}

CacheKeys ==
  UNION {{hash_text(split_sentences(t)[i].text) : i \in 1..Len(split_sentences(t))} :
           t \in Texts}

\* what the engine can leave behind in one run
ENGINE_SAMPLE_RATE == DEFAULT_SAMPLE_RATE

PCM_A == <<1, 0>>

PCM_B == <<2, 0, 3, 0>>

TSV_HEADER == <<<<"w">>, Junk, Junk>>

\* header, then rows (word, start seconds, end seconds)
TSV_ROWS == <<TSV_HEADER, <<<<"a">>, Rat(0, 1), Rat(1, 100)>>,
              <<<<"b">>, Rat(1, 100), Rat(2, 100)>>>>

EngineRun(run, wav, tsv) == [run |-> run, wav |-> wav, tsv |-> tsv]

WAV_A == wav_wrap(PCM_A, ENGINE_SAMPLE_RATE)

WAV_B == wav_wrap(PCM_B, ENGINE_SAMPLE_RATE)

\* a run that fails: non-zero exit, or exit 0 with an empty audio file
EngineFailures ==
  {EngineRun("exit_fail", NoFile(<<>>), NoFile(<<>>)),
   EngineRun("exit_ok", File(<<>>), NoFile(<<>>))}

\* a run that succeeds: the audio depends on the voice, and only the fallback
\* voice's run comes with an alignment file
EngineSuccess(voice) ==
  IF voice = FALLBACK_KOKORO_VOICE
  THEN EngineRun("exit_ok", File(WAV_B), File(TSV_ROWS))
  ELSE EngineRun("exit_ok", File(WAV_A), NoFile(<<>>))

\* the runs possible for `voice` while more failures may still happen (`failing`)
EngineOutcomes(voice, failing) ==
  {EngineSuccess(voice)} \cup (IF failing THEN EngineFailures ELSE {})

\* bundle files found in a bundle directory that this process did not write:
\* shipped with a course, or left by an interrupted export
\* (`past`: a char_offset beyond the text; `short`: a row of two fields;
\* `words`: a field that is no number; a WAV file that is empty, or missing)
GoodTimings(text) ==
  FormatTimings(InterpolatedTimings(extract_input_words(text), RatInt(1), RatZero))

ShippedBundles(text) ==
  LET past == <<<<RatInt(0), RatInt(0), RatInt(0), RatInt(1)>>,
                <<RatInt(1), RatInt(Len(text) + 1), RatInt(1), RatInt(2)>>>>
      short == <<<<RatInt(0), RatInt(0)>>, <<RatInt(0), RatInt(0), RatInt(0), RatInt(1)>>>>
      words == <<<<RatInt(0), RatInt(0), Junk, RatInt(1)>>>>
  IN {[wav |-> File(WAV_B), timings |-> File(GoodTimings(text))],
      [wav |-> File(WAV_B), timings |-> NoFile(<<>>)],
      [wav |-> File(WAV_B), timings |-> File(past)],
      [wav |-> File(WAV_B), timings |-> File(short)],
      [wav |-> File(WAV_B), timings |-> File(words)],
      [wav |-> File(<<>>), timings |-> File(GoodTimings(text))],
      [wav |-> NoFile(<<>>), timings |-> File(GoodTimings(text))]}

\* a cache directory filled by earlier runs of the application
WarmCache ==
  [k \in CacheKeys |->
     [pcm |-> File(PCM_A), meta |-> File(ToDecimal(ENGINE_SAMPLE_RATE)), tsv |-> File(<<>>)]]

\* -------------------------------------------------------------------- state
VARIABLES
  cache,      \* cache directory: key -> the three files of the entry
  bundle,     \* bundle directory: text hash -> the two files of the bundle
  engine,     \* "ready" or "no_binary": what resolve_koko_binary would find
  voiceEnv,   \* HANDHOLD_TTS_VOICE, or None
  pc,         \* "idle", "export", "sentences", "done"
  req,        \* the running request
  textIdx,    \* export_audio: 1-based position in `texts`
  exported,   \* export_audio: `exported`
  sentences,  \* synthesize_all_sentences: `sentences`
  results,    \* synthesize_all_sentences: `results`
  koko,       \* synthesize_all_sentences: `koko` is Some
  events,     \* events sent on the channel, in order
  outcome,    \* "none", "ok", "err", "panic"
  error,      \* the Err payload: the messages it contains
  ops,        \* the operations the request performed, in order
  prev,       \* the export_audio call that returned Ok last, if it was the last request
  nreq,       \* requests started
  wfails,     \* file writes that failed
  efails,     \* engine runs that failed
  workers     \* requests that run at the same time: each one's position and locals

pvars == <<cache, bundle, engine, voiceEnv, pc, req, textIdx, exported, sentences,
           results, koko, events, outcome, error, ops, prev, nreq, wfails, efails>>

fvars == <<call, ret, workers>>

vars == <<pvars, fvars>>

NoReq == [kind |-> "none", texts |-> <<>>, bundle_path |-> FALSE]

\* nothing is remembered of a request that was no export_audio returning Ok
NoPrev == [kind |-> "none", texts |-> <<>>, exported |-> 0, wav_landed |-> TRUE]

NoCall == [fn |-> "none"]

NoRet == [fn |-> "none"]

\* no requests overlap
NoWorkers == <<>>

Op(name, text_idx, sent_idx, key, flag) ==
  [op |-> name, text |-> text_idx, sent |-> sent_idx, key |-> key, ok |-> flag]

WordBoundary(word, word_index, char_offset, start_ms, end_ms) ==
  [event |-> "WordBoundary", word |-> word, word_index |-> word_index,
   char_offset |-> char_offset, start_ms |-> start_ms, end_ms |-> end_ms,
   audio_base64 |-> <<>>, duration_ms |-> RatZero]

\* audio_base64 is kept as the bytes it encodes
AudioReady(wav, duration_ms) ==
  [event |-> "AudioReady", word |-> <<>>, word_index |-> 0, char_offset |-> 0,
   start_ms |-> RatZero, end_ms |-> RatZero, audio_base64 |-> wav,
   duration_ms |-> duration_ms]

\* the `for ... in timings { on_event.send(WordBoundary { .. }) }` loop; it stops
\* at the first timing whose text_word_at panics
RECURSIVE SendWordBoundaries(_, _)
SendWordBoundaries(text, timings) ==
  IF timings = <<>> THEN [panic |-> FALSE, events |-> <<>>]
  ELSE LET t == Head(timings)
           w == text_word_at(text, t.char_offset)
       IN IF w.panic THEN [panic |-> TRUE, events |-> <<>>]
          ELSE LET rest == SendWordBoundaries(text, Tail(timings))
               IN [panic |-> rest.panic,
                   events |-> <<WordBoundary(w.word, t.word_index, t.char_offset,
                                             t.start_ms, t.end_ms)>> \o rest.events]

\* the word-boundary loop followed by the AudioReady send and `Ok(())`
Reply(text, timings, wav, duration_ms) ==
  LET sent == SendWordBoundaries(text, timings)
  IN IF sent.panic
     THEN [outcome |-> "panic", events |-> sent.events]
     ELSE [outcome |-> "ok", events |-> Append(sent.events, AudioReady(wav, duration_ms))]

CurrentText == IF req.kind = "export" THEN req.texts[textIdx] ELSE req.texts[1]

\* no request is running and none has run
Quiet ==
  /\ pc = "idle"
  /\ req = NoReq
  /\ textIdx = 0
  /\ exported = 0
  /\ sentences = <<>>
  /\ results = <<>>
  /\ koko = FALSE
  /\ events = <<>>
  /\ outcome = "none"
  /\ error = <<>>
  /\ ops = <<>>
  /\ prev = NoPrev
  /\ nreq = 0
  /\ wfails = 0
  /\ efails = 0

ColdCache == [k \in CacheKeys |-> NoCacheEntry]

\* the state before the first request, with `dirs` the possible contents of the
\* bundle directory; a cache filled by earlier runs is drawn where the engine
\* cannot be resolved
InitWith(dirs) ==
  /\ bundle \in dirs
  /\ engine \in {"ready", "no_binary"}
  /\ cache \in {ColdCache} \cup (IF engine = "no_binary" THEN {WarmCache} ELSE {})
  /\ voiceEnv \in {None, FALLBACK_KOKORO_VOICE}
  /\ Quiet
  /\ call = NoCall
  /\ ret = NoRet
  /\ workers = NoWorkers

EmptyBundleDir == [k \in BundleKeys |-> NoBundle]

\* a bundle directory that nothing but export_audio of this process writes
Init == InitWith({EmptyBundleDir})

\* a bundle directory that came with a course: it holds files for T_TWO
InitShipped ==
  InitWith({[EmptyBundleDir EXCEPT ![hash_text(T_TWO)] = b] : b \in ShippedBundles(T_TWO)})

\* ------------------------------------------------------------- commands.rs
\* synthesize(text, bundle_path): the bundle check, and on a hit the whole reply
Synthesize(text, bp) ==
  /\ pc = "idle"
  /\ nreq < MaxRequests
  /\ nreq' = nreq + 1
  /\ req' = [kind |-> "synthesize", texts |-> <<text>>, bundle_path |-> bp]
  /\ LET h == hash_text(text)
         b == IF bp THEN bundle_hit(bundle[h]) ELSE NoBundledAudio
     IN IF b.some
        THEN LET reply == Reply(text, b.timings, b.wav_bytes, b.duration_ms)
             IN /\ ops' = <<Op("bundle_hit", 1, 0, h, TRUE)>>
                /\ pc' = "done"
                /\ sentences' = <<>>
                /\ events' = reply.events
                /\ outcome' = reply.outcome
        ELSE /\ ops' = (IF bp THEN <<Op("bundle_hit", 1, 0, h, FALSE)>> ELSE <<>>)
                         \o <<Op("split", 1, 0, h, TRUE)>>
             /\ pc' = "sentences"
             /\ sentences' = split_sentences(text)
             /\ events' = <<>>
             /\ outcome' = "none"
  /\ textIdx' = 1
  /\ results' = <<>>
  /\ koko' = FALSE
  /\ error' = <<>>
  /\ UNCHANGED <<cache, bundle, engine, voiceEnv, exported, prev, wfails, efails, fvars>>

\* export_audio(texts, bundle_dir): entry
ExportAudio(texts) ==
  /\ pc = "idle"
  /\ nreq < MaxRequests
  /\ nreq' = nreq + 1
  /\ req' = [kind |-> "export", texts |-> texts, bundle_path |-> TRUE]
  /\ pc' = "export"
  /\ textIdx' = 1
  /\ exported' = 0
  /\ sentences' = <<>>
  /\ results' = <<>>
  /\ koko' = FALSE
  /\ events' = <<>>
  /\ outcome' = "none"
  /\ error' = <<>>
  /\ ops' = <<>>
  /\ UNCHANGED <<cache, bundle, engine, voiceEnv, prev, wfails, efails, fvars>>

\* variant of already_exported that looks for the timings file
already_exported_by_timings(files) == files.timings.exists

\* `if bp.join(format!("{text_hash:016x}.wav")).exists()`
already_exported(files) == files.wav.exists

\* variant of ExportSkip that counts the skipped text
ExportSkipCounted(h) ==
  /\ textIdx' = textIdx + 1
  /\ exported' = exported + 1
  /\ ops' = Append(ops, Op("skip", textIdx, 0, h, TRUE))
  /\ UNCHANGED <<pc, outcome, sentences, results, koko>>

\* the `continue` of a text that is already exported
ExportSkip(h) ==
  /\ textIdx' = textIdx + 1
  /\ exported' = exported
  /\ ops' = Append(ops, Op("skip", textIdx, 0, h, TRUE))
  /\ UNCHANGED <<pc, outcome, sentences, results, koko>>

\* export_audio: head of `for text in &texts`, up to synthesize_all_sentences' split
ExportNext ==
  /\ pc = "export"
  /\ IF textIdx > Len(req.texts)
     THEN /\ outcome' = "ok"
          /\ pc' = "done"
          /\ UNCHANGED <<textIdx, exported, sentences, results, koko, ops>>
     ELSE LET h == hash_text(req.texts[textIdx])
          IN IF already_exported(bundle[h])
             THEN ExportSkip(h)
             ELSE /\ pc' = "sentences"
                  /\ sentences' = split_sentences(req.texts[textIdx])
                  /\ results' = <<>>
                  /\ koko' = FALSE
                  /\ ops' = Append(ops, Op("split", textIdx, 0, h, TRUE))
                  /\ UNCHANGED <<textIdx, exported, outcome>>
  /\ UNCHANGED <<cache, bundle, engine, voiceEnv, req, events, error, prev, nreq,
                 wfails, efails, fvars>>

\* variant of resolve_needed that resolves at the first sentence, hit or miss
resolve_needed_eagerly(hit_some, koko_some) == ~koko_some

\* the engine context is resolved in the cache-miss arm, while `koko` is None
resolve_needed(hit_some, koko_some) == ~hit_some /\ ~koko_some

\* variant of SentenceFailed that drops the sentence and goes on
SentenceFailedDropped(done, err) ==
  /\ results' = Append(results, [off |-> sentences[Len(results) + 1].off,
                                 c |-> CachedSentence(<<>>, ENGINE_SAMPLE_RATE, <<>>)])
  /\ ops' = done
  /\ UNCHANGED <<cache, wfails, outcome, error, pc>>

\* the `?` on a failed sentence: synthesize_all_sentences returns the error
SentenceFailed(done, err) ==
  /\ outcome' = "err"
  /\ error' = err
  /\ pc' = "done"
  /\ ops' = done
  /\ UNCHANGED <<cache, results, wfails>>

\* `Some(c) => c`, then `results.push((char_start, cached))`
SentenceCached(off, c, done) ==
  /\ results' = Append(results, [off |-> off, c |-> c])
  /\ ops' = done
  /\ UNCHANGED <<cache, outcome, error, pc, wfails, efails>>

\* `cache_write(hash, ..); result`, then `results.push((char_start, cached))`
SentenceSynthesized(off, h, idx, c, done) ==
  \E w \in WriteVectors(3, MaxWriteFailures - wfails) :
    /\ cache' = [cache EXCEPT ![h] = cache_write(@, c.pcm, c.sample_rate, c.tsv_content, w)]
    /\ wfails' = wfails + FailedWrites(w)
    /\ results' = Append(results, [off |-> off, c |-> c])
    /\ ops' = done \o <<Op("write_pcm", textIdx, idx, h, w[1] = "ok"),
                        Op("write_meta", textIdx, idx, h, w[2] = "ok"),
                        Op("write_tsv", textIdx, idx, h, w[3] = "ok")>>
    /\ UNCHANGED <<outcome, error, pc>>

\* the engine invocations of one synthesize_sentence call, as operations
Invocations(syn, h, idx) ==
  [i \in 1..Len(syn.voices) |-> Op(syn.voices[i], textIdx, idx, h, syn.runs[i])]

\* `let result = synthesize_sentence(ctx, sentence_text, idx)?` and what follows
AfterSynthesis(off, h, idx, syn, done) ==
  /\ efails' = efails + Cardinality({i \in 1..Len(syn.runs) : ~syn.runs[i]})
  /\ IF syn.r.ok
     THEN SentenceSynthesized(off, h, idx, syn.r.c, done)
     ELSE SentenceFailed(done, syn.r.err)

\* the cache-miss arm once the context is there: the engine runs are drawn
\* from what the engine can do while failures may still happen
SentenceMissed(off, h, idx, primary, resolved) ==
  \E out1 \in EngineOutcomes(primary, efails < MaxEngineFailures) :
    \E out2 \in IF FallbackRuns(primary, out1)
                THEN EngineOutcomes(FALLBACK_KOKORO_VOICE, efails + 1 < MaxEngineFailures)
                ELSE {out1} :
      AfterSynthesis(off, h, idx, synthesize_sentence(primary, out1, out2),
                     resolved \o Invocations(synthesize_sentence(primary, out1, out2), h, idx))

\* `koko = Some(resolve_koko_context()?)` fails
ResolutionFailed(done) ==
  /\ outcome' = "err"
  /\ error' = <<"koko binary not found">>
  /\ pc' = "done"
  /\ ops' = done
  /\ UNCHANGED <<cache, koko, results, wfails, efails>>

\* the body of the loop for sentence `idx`, given the cache lookup `hit`
SentenceStep(off, h, idx, hit, must, looked) ==
  IF must /\ ~resolve_koko_context(engine)
  THEN ResolutionFailed(Append(looked, Op("resolve", textIdx, idx, h, FALSE)))
  ELSE /\ koko' = (koko \/ must)
       /\ IF hit.some
          THEN SentenceCached(off, hit.c, looked)
          ELSE SentenceMissed(off, h, idx, resolve_kokoro_voice(voiceEnv),
                              IF must
                              THEN Append(looked, Op("resolve", textIdx, idx, h, TRUE))
                              ELSE looked)

\* what `cache_hit(hash)` of sentence `idx` leads to
SentenceLookup(off, h, idx, hit) ==
  SentenceStep(off, h, idx, hit, resolve_needed(hit.some, koko),
               Append(ops, Op("cache_hit", textIdx, idx, h, hit.some)))

\* synthesize_all_sentences: one iteration of the loop over the sentences
ProcessSentence ==
  /\ pc = "sentences"
  /\ Len(results) < Len(sentences)
  /\ SentenceLookup(sentences[Len(results) + 1].off,
                    hash_text(sentences[Len(results) + 1].text),
                    Len(results),
                    cache_hit(cache[hash_text(sentences[Len(results) + 1].text)]))
  /\ UNCHANGED <<bundle, engine, voiceEnv, req, textIdx, exported, sentences, events,
                 prev, nreq, fvars>>

\* `exported += 1`
count_exported(n) == n + 1

\* after synthesize_all_sentences returned Ok: stitch, then reply (synthesize)
\* or wrap, bundle_write and count (export_audio)
FinishText ==
  /\ pc = "sentences"
  /\ Len(results) = Len(sentences)
  /\ LET text == CurrentText
         h == hash_text(text)
         st == stitch_sentences(text, sentences, results)
     IN IF ~st.ok
        THEN /\ outcome' = "err"
             /\ error' = <<st.err>>
             /\ pc' = "done"
             /\ ops' = Append(ops, Op("stitch", textIdx, 0, h, FALSE))
             /\ UNCHANGED <<bundle, events, exported, textIdx, wfails>>
        ELSE IF req.kind = "synthesize"
        THEN LET reply == Reply(text, st.timings, wav_wrap(st.pcm, st.sample_rate),
                                st.duration_ms)
             IN /\ events' = reply.events
                /\ outcome' = reply.outcome
                /\ pc' = "done"
                /\ ops' = Append(ops, Op("stitch", textIdx, 0, h, TRUE))
                /\ UNCHANGED <<bundle, error, exported, textIdx, wfails>>
        ELSE \E w \in WriteVectors(2, MaxWriteFailures - wfails) :
               /\ wfails' = wfails + FailedWrites(w)
               /\ bundle' = [bundle EXCEPT ![h] =
                               bundle_write(@, wav_wrap(st.pcm, st.sample_rate),
                                            st.timings, w)]
               /\ exported' = count_exported(exported)
               /\ textIdx' = textIdx + 1
               /\ pc' = "export"
               /\ ops' = ops \o <<Op("stitch", textIdx, 0, h, TRUE),
                                  Op("write_wav", textIdx, 0, h, w[1] = "ok"),
                                  Op("write_timings", textIdx, 0, h, w[2] = "ok")>>
               /\ UNCHANGED <<events, outcome, error>>
  /\ UNCHANGED <<cache, engine, voiceEnv, req, sentences, results, koko, prev, nreq,
                 efails, fvars>>

\* the command returns to its caller
Return ==
  /\ pc = "done"
  /\ pc' = "idle"
  /\ prev' = IF req.kind = "export" /\ outcome = "ok"
             THEN [kind |-> "export", texts |-> req.texts, exported |-> exported,
                   wav_landed |-> \A i \in 1..Len(ops) :
                                    ops[i].op = "write_wav" => ops[i].ok]
             ELSE NoPrev
  /\ req' = NoReq
  /\ textIdx' = 0
  /\ exported' = 0
  /\ sentences' = <<>>
  /\ results' = <<>>
  /\ koko' = FALSE
  /\ events' = <<>>
  /\ outcome' = "none"
  /\ error' = <<>>
  /\ ops' = <<>>
  /\ UNCHANGED <<cache, bundle, engine, voiceEnv, nreq, wfails, efails, fvars>>

Next ==
  \/ \E text \in Texts, bp \in BOOLEAN : Synthesize(text, bp)
  \/ \E texts \in TextLists : ExportAudio(texts)
  \/ ExportNext
  \/ ProcessSentence
  \/ FinishText
  \/ Return

Spec == Init /\ [][Next]_vars

SpecShipped == InitShipped /\ [][Next]_vars

\* ------------------------------------------- synthesize_sentence on its own
\* WAV files whose data chunk holds less than one frame: no byte, and half a
\* 16-bit sample
WAV_NO_FRAME == {wav_wrap(<<>>, ENGINE_SAMPLE_RATE), wav_wrap(<<1>>, ENGINE_SAMPLE_RATE)}

\* what one engine run can leave behind, over every way it can end
SynthRuns ==
  {EngineRun("exit_ok", File(w), File(TSV_ROWS)) : w \in WAV_NO_FRAME} \cup
  {EngineRun("spawn_fail", NoFile(<<>>), NoFile(<<>>)),
   EngineRun("exit_fail", NoFile(<<>>), NoFile(<<>>)),
   EngineRun("exit_ok", NoFile(<<>>), NoFile(<<>>)),
   EngineRun("exit_ok", NoFile(<<>>), File(TSV_ROWS)),
   EngineRun("exit_ok", File(<<>>), NoFile(<<>>)),
   EngineRun("exit_ok", File(<<0>>), File(TSV_ROWS)),
   EngineRun("exit_ok", File(WAV_A), NoFile(<<>>)),
   EngineRun("exit_ok", File(WAV_A), File(<<>>)),
   EngineRun("exit_ok", File(WAV_B), File(TSV_ROWS))}

\* HANDHOLD_TTS_VOICE: unset, the fallback voice, or a third voice
SynthVoiceEnvs == {None, FALLBACK_KOKORO_VOICE, "af_heart"}

InitSynth ==
  /\ bundle = EmptyBundleDir
  /\ engine = "ready"
  /\ cache = ColdCache
  /\ voiceEnv \in SynthVoiceEnvs
  /\ Quiet
  /\ call \in [fn : {"synthesize_sentence"}, out1 : SynthRuns, out2 : SynthRuns]
  /\ ret = NoRet
  /\ workers = NoWorkers

\* synthesize_sentence(ctx, sentence, sentence_idx) with the engine runs of `call`
ApplySynthesizeSentence ==
  /\ call.fn = "synthesize_sentence"
  /\ ret.fn = "none"
  /\ ret' = [fn |-> "synthesize_sentence",
             v |-> synthesize_sentence(resolve_kokoro_voice(voiceEnv), call.out1, call.out2)]
  /\ UNCHANGED <<pvars, call, workers>>

NextSynth == ApplySynthesizeSentence

SpecSynth == InitSynth /\ [][NextSynth]_vars

\* ---------------------------------------------- stitch_sentences on its own
\* "a. b a. a."
T_THREE == <<"a", ".", " ", "b", " ", "a", ".", " ", "a", ".">>

\* "a.", U+000B, "b": one sentence of two words
T_VT == <<"a", ".", "VT", "b">>

StitchTexts == {T_EMPTY, T_REPEAT, T_TWO, T_THREE, T_VT}

StitchPcms == {<<>>, PCM_A, PCM_B}

StitchRates == {ENGINE_SAMPLE_RATE, 2 * ENGINE_SAMPLE_RATE}

\* a row whose end field does not parse, and a row that ends before it starts
TSV_NO_END == <<TSV_HEADER, <<<<"a">>, Rat(1, 100), Junk>>>>

TSV_BACKWARDS == <<TSV_HEADER, <<<<"a">>, Rat(2, 100), Rat(1, 100)>>>>

\* a header without rows, and rows that are punctuation or have two fields
TSV_HEADER_ONLY == <<TSV_HEADER>>

TSV_NO_WORD == <<TSV_HEADER, <<<<".">>, Rat(0, 1), Rat(1, 100)>>, <<<<"a">>, Rat(0, 1)>>>>

\* no alignment, rows in order, and the two rows above
StitchTsvs == {<<>>, TSV_ROWS, TSV_NO_END, TSV_BACKWARDS}

\* a row of a word after a row of punctuation
TSV_AFTER_PUNCT == <<TSV_HEADER, <<<<".">>, Rat(0, 1), Rat(1, 100)>>,
                     <<<<"a">>, Rat(1, 100), Rat(2, 100)>>>>

\* the alignment files drawn for a text of n sentences: the three files above
\* are among them for texts of up to two sentences
StitchTsvsFor(n) ==
  StitchTsvs \cup (IF n <= 2 THEN {TSV_HEADER_ONLY, TSV_NO_WORD, TSV_AFTER_PUNCT} ELSE {})

\* the sentence_results that synthesize_all_sentences can pair with `sentences`
StitchResults(sents) ==
  {[i \in 1..Len(sents) |-> [off |-> sents[i].off, c |-> cs[i]]] :
     cs \in [1..Len(sents) -> {CachedSentence(p, r, t) :
                                 p \in StitchPcms, r \in StitchRates,
                                 t \in StitchTsvsFor(Len(sents))}]}

InitStitch ==
  /\ bundle = EmptyBundleDir
  /\ engine = "ready"
  /\ cache = ColdCache
  /\ voiceEnv = None
  /\ Quiet
  /\ \E text \in StitchTexts :
       \E rs \in StitchResults(split_sentences(text)) :
         call = [fn |-> "stitch_sentences", text |-> text,
                 sentences |-> split_sentences(text), results |-> rs]
  /\ ret = NoRet
  /\ workers = NoWorkers

\* stitch_sentences(text, &sentences, &sentence_results)
ApplyStitchSentences ==
  /\ call.fn = "stitch_sentences"
  /\ ret.fn = "none"
  /\ ret' = [fn |-> "stitch_sentences",
             v |-> stitch_sentences(call.text, call.sentences, call.results)]
  /\ UNCHANGED <<pvars, call, workers>>

\* what `synthesize` does with the result: the `?` returns its error before any
\* event is sent, otherwise the events are sent and the audio wrapped
SynthesizeAfterStitch(text, st) ==
  IF ~st.ok THEN [fn |-> "synthesize", v |-> st, outcome |-> "err", events |-> <<>>]
  ELSE [fn |-> "synthesize", v |-> st,
        outcome |-> Reply(text, st.timings, wav_wrap(st.pcm, st.sample_rate),
                          st.duration_ms).outcome,
        events |-> Reply(text, st.timings, wav_wrap(st.pcm, st.sample_rate),
                         st.duration_ms).events]

ApplySynthesizeAfterStitch ==
  /\ call.fn = "stitch_sentences"
  /\ ret.fn = "stitch_sentences"
  /\ ret' = SynthesizeAfterStitch(call.text, ret.v)
  /\ UNCHANGED <<pvars, call, workers>>

\* what `export_audio` does with the same result: wrap and bundle_write into an
\* empty bundle directory; `w` gives the outcome of the two writes
ExportAfterStitch(direct, w) ==
  [fn |-> "export_audio", v |-> direct.v, outcome |-> direct.outcome,
   events |-> direct.events,
   files |-> bundle_write(NoBundle, wav_wrap(direct.v.pcm, direct.v.sample_rate),
                          direct.v.timings, w)]

ApplyExportAfterStitch ==
  /\ call.fn = "stitch_sentences"
  /\ ret.fn = "synthesize"
  /\ ret.v.ok
  /\ \E w \in WriteVectors(2, 1) : ret' = ExportAfterStitch(ret, w)
  /\ UNCHANGED <<pvars, call, workers>>

\* `synthesize(text, Some(bundle_dir))` after that export: the bundle path's
\* reply on a hit; on a miss the request goes on to synthesize directly
ServedFromBundle(text, exp, b) ==
  [fn |-> "served", v |-> exp.v, outcome |-> exp.outcome, events |-> exp.events,
   files |-> exp.files, hit |-> b.some,
   served |-> IF b.some THEN Reply(text, b.timings, b.wav_bytes, b.duration_ms)
              ELSE [outcome |-> "miss", events |-> <<>>]]

ApplySynthesizeFromBundle ==
  /\ call.fn = "stitch_sentences"
  /\ ret.fn = "export_audio"
  /\ ret' = ServedFromBundle(call.text, ret, bundle_hit(ret.files))
  /\ UNCHANGED <<pvars, call, workers>>

NextStitch ==
  \/ ApplyStitchSentences
  \/ ApplySynthesizeAfterStitch
  \/ ApplyExportAfterStitch
  \/ ApplySynthesizeFromBundle

SpecStitch == InitStitch /\ [][NextStitch]_vars

\* ------------------------------------- cache_write / cache_hit on their own
\* a write can also fail after the file was created and truncated
CacheWriteOutcomes == WriteOutcomes \cup {"trunc"}

\* what is to be written: PCM (also none at all), rates of one to five digits
\* and zero, alignment texts
CachePcms == {<<>>, PCM_A, PCM_B}

CacheRates == {0, 7, ENGINE_SAMPLE_RATE, 2 * ENGINE_SAMPLE_RATE}

CacheTsvs == {<<>>, TSV_ROWS, TSV_BACKWARDS}

\* the key is new, or holds an entry written before
OldCacheEntries ==
  {NoCacheEntry,
   [pcm |-> File(PCM_B), meta |-> File(ToDecimal(2 * ENGINE_SAMPLE_RATE)),
    tsv |-> File(TSV_NO_END)]}

InitCache ==
  /\ bundle = EmptyBundleDir
  /\ engine = "ready"
  /\ cache = ColdCache
  /\ voiceEnv = None
  /\ Quiet
  /\ call \in [fn : {"cache_write"}, old : OldCacheEntries, pcm : CachePcms,
               sample_rate : CacheRates, tsv_content : CacheTsvs,
               w : [1..3 -> CacheWriteOutcomes]]
  /\ ret = NoRet
  /\ workers = NoWorkers

\* cache_write(hash, pcm, sample_rate, tsv_content) on the files of one key
ApplyCacheWrite ==
  /\ call.fn = "cache_write"
  /\ ret.fn = "none"
  /\ ret' = [fn |-> "cache_write",
             files |-> cache_write(call.old, call.pcm, call.sample_rate,
                                   call.tsv_content, call.w),
             hit |-> CacheMiss]
  /\ UNCHANGED <<pvars, call, workers>>

\* cache_hit(hash) on the files the write left
ApplyCacheHit ==
  /\ ret.fn = "cache_write"
  /\ ret' = [fn |-> "cache_hit", files |-> ret.files, hit |-> cache_hit(ret.files)]
  /\ UNCHANGED <<pvars, call, workers>>

NextCache == ApplyCacheWrite \/ ApplyCacheHit

SpecCache == InitCache /\ [][NextCache]_vars

\* ------------------------------------------------- hash_text on its own
\* who asks for a key: the text hashed, and the voice, the sentence's index
\* and offset, and the process of the request that hashes it
HashRuns ==
  [text : {T_ONE, T_TWO, <<"a">>},
   voice : {DEFAULT_KOKORO_VOICE, FALLBACK_KOKORO_VOICE},
   index : {0, 1},
   offset : {0, 3},
   process : {1, 2}]

\* two calls of hash_text, one after the other
InitHash ==
  /\ Quiet
  /\ engine = "ready"
  /\ voiceEnv = None
  /\ cache = <<>>
  /\ bundle = <<>>
  /\ workers = NoWorkers
  /\ call \in [fn : {"hash_text"}, runs : [1..2 -> HashRuns]]
  /\ ret = [fn |-> "hash_text", keys |-> <<>>]

ApplyHashText ==
  /\ call.fn = "hash_text"
  /\ Len(ret.keys) < Len(call.runs)
  /\ ret' = [ret EXCEPT !.keys = Append(@, hash_text(call.runs[Len(ret.keys) + 1].text))]
  /\ UNCHANGED <<pvars, call, workers>>

NextHash == ApplyHashText

SpecHash == InitHash /\ [][NextHash]_vars

\* -------------------------------------------------- split.rs on its own
MaxTextLen == 5

\* a letter, two terminators, an ASCII space and U+000B
SplitAlphabet == {"a", ".", "?", " ", "VT"}

\* "Hello world. How are you?"
T_HELLO ==
  <<"H", "e", "l", "l", "o", " ", "w", "o", "r", "l", "d", ".", " ",
    "H", "o", "w", " ", "a", "r", "e", " ", "y", "o", "u", "?">>

SplitTexts ==
  UNION {[1..n -> SplitAlphabet] : n \in 0..MaxTextLen} \cup {T_HELLO}

InitSplit ==
  /\ Quiet
  /\ engine = "ready"
  /\ voiceEnv = None
  /\ cache = ColdCache
  /\ bundle = EmptyBundleDir
  /\ workers = NoWorkers
  /\ ret = NoRet
  /\ \E t \in SplitTexts : call = [fn |-> "split_sentences", text |-> t]

ApplySplitSentences ==
  /\ call.fn = "split_sentences"
  /\ ret = NoRet
  /\ ret' = [fn |-> "split_sentences", sentences |-> split_sentences(call.text)]
  /\ UNCHANGED <<pvars, call, workers>>

NextSplit == ApplySplitSentences

SpecSplit == InitSplit /\ [][NextSplit]_vars

\* ----------------------------------------------------- wav.rs on its own
\* a WAV file with one fmt chunk and one data chunk
MakeWav(format, num_channels, sample_rate, bits_per_sample, data) ==
  RIFF \o U32LE(36 + Len(data)) \o WAVE \o FMT \o U32LE(16)
    \o U16LE(format) \o U16LE(num_channels) \o U32LE(sample_rate) \o U32LE(0)
    \o U16LE((num_channels * bits_per_sample) \div 8) \o U16LE(bits_per_sample)
    \o DATA \o U32LE(Len(data)) \o data

WavFormats == {WAV_FORMAT_PCM, 2, WAVE_FORMAT_IEEE_FLOAT, WAVE_FORMAT_EXTENSIBLE}

WavChannels == {0, 1, 2}

WavBits == {8, 16, 32}

\* 0, 24000, 44100, 2^31 - 1, 2^31 and u32::MAX
WavRates ==
  {0, ENGINE_SAMPLE_RATE, 44100, U32FromHalves(32767, 65535), U32FromHalves(32768, 0),
   U32FromHalves(65535, 65535)}

\* nothing, half a sample, one 16-bit sample, two of them, the 16-bit samples
\* -1, 0, 3, the two f32 samples 0.5 and -1.0, and the two f32 samples 1.0 and
\* -1.0
WavDatas ==
  {<<>>, <<1>>, <<1, 0>>, <<1, 0, 255, 127>>, <<255, 255, 0, 0, 3, 0>>,
   <<0, 0, 0, 63, 0, 0, 128, 191>>, <<0, 0, 128, 63, 0, 0, 128, 191>>}

\* a 16-bit mono fmt chunk that declares `declared` bytes, of which the first
\* `present` are there
FmtChunk(declared, present) ==
  FMT \o U32LE(declared)
    \o SubSeq(U16LE(WAV_FORMAT_PCM) \o U16LE(1) \o U32LE(ENGINE_SAMPLE_RATE) \o U32LE(0)
                \o U16LE(2) \o U16LE(16) \o <<0, 0>>, 1, present)

\* files whose last chunk declares more bytes than the file has: a data chunk
\* of 4 bytes with 0, 1, 2 or 3 of them, a fmt chunk of 16 bytes with 10 of
\* them, and a fmt chunk of 18 bytes with 16 of them that follows the data
TruncatedWavs ==
  {[chunk |-> "data", has |-> SubSeq(<<1, 0, 2, 0>>, 1, n),
    bytes |-> RIFF \o U32LE(44) \o WAVE \o FmtChunk(16, 16) \o DATA \o U32LE(4)
                \o SubSeq(<<1, 0, 2, 0>>, 1, n)] : n \in 0..3}
  \cup
  {[chunk |-> "fmt", has |-> <<>>,
    bytes |-> RIFF \o U32LE(36) \o WAVE \o FmtChunk(16, 10)],
   [chunk |-> "fmt", has |-> <<1, 0>>,
    bytes |-> RIFF \o U32LE(40) \o WAVE \o DATA \o U32LE(2) \o <<1, 0>> \o FmtChunk(18, 16)]}

\* a chunk with its pad byte if its size is odd
Chunk(id, body) ==
  id \o U32LE(Len(body)) \o body \o (IF Len(body) % 2 = 1 THEN <<0>> ELSE <<>>)

\* files that are not one fmt chunk followed by one data chunk: too short, not
\* RIFF, no data chunk, a short fmt chunk, an odd-sized chunk before the data,
\* a data chunk that declares more bytes than the file has, two data chunks
\* followed by 7 stray bytes, and an unknown chunk that declares 2^32 - 1
\* bytes in front of a data and a fmt chunk
WavOddities ==
  {<<>>,
   RIFF \o U32LE(4),
   WAVE \o U32LE(4) \o RIFF,
   SubSeq(MakeWav(WAV_FORMAT_PCM, 1, ENGINE_SAMPLE_RATE, 16, <<>>), 1, 36),
   RIFF \o U32LE(4) \o WAVE \o FMT \o U32LE(14) \o U16LE(1) \o U16LE(1)
     \o U32LE(ENGINE_SAMPLE_RATE) \o U32LE(0) \o U16LE(2) \o U16LE(16),
   SubSeq(MakeWav(WAV_FORMAT_PCM, 1, ENGINE_SAMPLE_RATE, 16, <<>>), 1, 36)
     \o <<76, 73, 83, 84>> \o U32LE(1) \o <<7, 0>> \o DATA \o U32LE(2) \o <<1, 0>>,
   SubSeq(MakeWav(WAV_FORMAT_PCM, 1, ENGINE_SAMPLE_RATE, 16, <<>>), 1, 36)
     \o DATA \o U32LE(U32FromHalves(65535, 65535)) \o <<1, 0>>,
   MakeWav(WAV_FORMAT_PCM, 1, ENGINE_SAMPLE_RATE, 16, <<1, 0>>)
     \o Chunk(DATA, <<2, 0, 3, 0>>) \o <<1, 2, 3, 4, 5, 6, 7>>,
   RIFF \o U32LE(4) \o WAVE \o <<76, 73, 83, 84>> \o U32LE(U32FromHalves(65535, 65535))
     \o Chunk(DATA, <<1, 0>>) \o FmtChunk(16, 16)}

\* chunks the decoder does not know: none, a LIST chunk of 1 byte, a JUNK chunk
\* of 2 bytes, and the two in a row
UnknownChunks ==
  {<<>>,
   Chunk(<<76, 73, 83, 84>>, <<7>>),
   Chunk(<<74, 85, 78, 75>>, <<100, 97>>),
   Chunk(<<76, 73, 83, 84>>, <<7>>) \o Chunk(<<74, 85, 78, 75>>, <<100, 97>>)}

\* what follows the 16 bytes of a fmt chunk: nothing, a zero cbSize, and the
\* 24 bytes of an extensible format
FmtExtensions == {<<>>, <<0, 0>>, [i \in 1..24 |-> i]}

\* the file of MakeWav with chunks before, between and after its two chunks
\* and with `ext` appended to the fmt chunk
LaidOut(format, num_channels, sample_rate, bits_per_sample, data, before, ext, between, after) ==
  LET chunks == before
                  \o Chunk(FMT, U16LE(format) \o U16LE(num_channels) \o U32LE(sample_rate)
                                  \o U32LE(0)
                                  \o U16LE((num_channels * bits_per_sample) \div 8)
                                  \o U16LE(bits_per_sample) \o ext)
                  \o between \o Chunk(DATA, data) \o after
  IN RIFF \o U32LE(4 + Len(chunks)) \o WAVE \o chunks

WavCall(shape, format, num_channels, sample_rate, bits_per_sample, data, bytes, checks) ==
  [fn |-> "wav_to_int16_pcm", shape |-> shape, format |-> format,
   num_channels |-> num_channels, sample_rate |-> sample_rate,
   bits_per_sample |-> bits_per_sample, data |-> data, wav_bytes |-> bytes,
   overflow_checks |-> checks]

WavRet(fn, first, panicked, wrapped, again) ==
  [fn |-> fn, first |-> first, panicked |-> panicked, wrapped |-> wrapped, again |-> again]

\* the inputs, and whether the build has overflow checks
InitWav ==
  /\ Quiet
  /\ engine = "ready"
  /\ voiceEnv = None
  /\ cache = ColdCache
  /\ bundle = EmptyBundleDir
  /\ workers = NoWorkers
  /\ ret = NoRet
  /\ \E checks \in BOOLEAN :
       \/ \E f \in WavFormats, ch \in WavChannels, r \in WavRates, b \in WavBits,
             d \in WavDatas :
            call = WavCall("plain", f, ch, r, b, d, MakeWav(f, ch, r, b, d), checks)
       \/ \E o \in WavOddities : call = WavCall("odd", 0, 0, 0, 0, <<>>, o, checks)
       \/ \E f \in {WAV_FORMAT_PCM, WAVE_FORMAT_IEEE_FLOAT}, ch \in {1, 2}, b \in {16, 32},
             d \in WavDatas, before \in UnknownChunks, ext \in FmtExtensions,
             between \in UnknownChunks, after \in UnknownChunks :
            call = WavCall("laid out", f, ch, ENGINE_SAMPLE_RATE, b, d,
                           LaidOut(f, ch, ENGINE_SAMPLE_RATE, b, d, before, ext, between,
                                   after),
                           checks)
       \/ \E t \in TruncatedWavs :
            call = WavCall("truncated " \o t.chunk, WAV_FORMAT_PCM, 1, ENGINE_SAMPLE_RATE,
                           16, t.has, t.bytes, checks)

ApplyWavToInt16Pcm ==
  /\ call.fn = "wav_to_int16_pcm"
  /\ ret = NoRet
  /\ ret' = WavRet("wav_to_int16_pcm", wav_to_int16_pcm(call.wav_bytes), FALSE, <<>>,
                   PcmErr(""))
  /\ UNCHANGED <<pvars, call, workers>>

\* wav_wrap of what was decoded
WavWrapped(pcm, sample_rate) ==
  IF call.overflow_checks /\ wav_wrap_overflows(pcm, sample_rate)
  THEN WavRet("wav_wrap", ret.first, TRUE, <<>>, PcmErr(""))
  ELSE WavRet("wav_wrap", ret.first, FALSE, wav_wrap(pcm, sample_rate), PcmErr(""))

ApplyWavWrap ==
  /\ call.fn = "wav_to_int16_pcm"
  /\ ret.fn = "wav_to_int16_pcm"
  /\ ret.first.ok
  /\ ret' = WavWrapped(ret.first.pcm, ret.first.sample_rate)
  /\ UNCHANGED <<pvars, call, workers>>

\* wav_to_int16_pcm of what wav_wrap returned
ApplyDecodeAgain ==
  /\ call.fn = "wav_to_int16_pcm"
  /\ ret.fn = "wav_wrap"
  /\ ~ret.panicked
  /\ ret' = WavRet("again", ret.first, FALSE, ret.wrapped, wav_to_int16_pcm(ret.wrapped))
  /\ UNCHANGED <<pvars, call, workers>>

NextWav == ApplyWavToInt16Pcm \/ ApplyWavWrap \/ ApplyDecodeAgain

SpecWav == InitWav /\ [][NextWav]_vars

\* ------------------------------------------------ requests that overlap
\* Both commands are `async fn`s without a lock: two invocations run on
\* different threads and interleave at every file operation.  Each worker runs
\* one command on the one-sentence text T_ONE.

RaceKey == hash_text(T_ONE)

Workers == {1, 2}

\* the wall clock is read in whole ticks, 1..ClockTicks
ClockTicks == 2

\* tmp_id is 0 until the request has resolved its engine context
Worker(kind, at, hit, c, n, out) ==
  [kind |-> kind, pc |-> at, hit |-> hit, c |-> c, n |-> n, out |-> out, tmp_id |-> 0]

NewWorker(kind) == Worker(kind, "start", FALSE, CachedSentence(<<>>, 0, <<>>), 0, "none")

\* the one write of `n` that is executed in a step
OnlyWrite(n, i) == [j \in 1..n |-> IF j = i THEN "ok" ELSE "fail"]

InitRace ==
  /\ Quiet
  /\ engine = "ready"
  /\ voiceEnv = None
  /\ cache \in {ColdCache, WarmCache}
  /\ bundle = [k \in {RaceKey} |-> NoBundle]
  /\ call = NoCall
  /\ ret = NoRet
  /\ workers \in [Workers -> {NewWorker(kind) : kind \in {"synthesize", "export"}}]

\* export_audio skips a text whose WAV is there; synthesize (without a bundle
\* path) goes straight to the sentences
RaceBegin(w) ==
  /\ workers[w].pc = "start"
  /\ workers' = [workers EXCEPT ![w] =
       IF @.kind = "export" /\ already_exported(bundle[RaceKey])
       THEN [@ EXCEPT !.pc = "done", !.out = "skipped"]
       ELSE [@ EXCEPT !.pc = "lookup"]]
  /\ UNCHANGED <<pvars, call, ret>>

\* where `match cache_hit(..)` continues
after_lookup(some) == IF some THEN "stitch" ELSE "engine"

\* what `SystemTime::now()` can return: a tick that is not before a tick that
\* was read earlier; the clock need not have advanced since then
ClockReadings == {t \in 1..ClockTicks : \A v \in Workers : workers[v].tmp_id <= t}

\* a miss resolves the engine context, whose tmp_id is the clock reading `now`
RaceLookedUp(w, hit, now) ==
  workers' = [workers EXCEPT ![w] =
                [@ EXCEPT !.pc = after_lookup(hit.some), !.hit = hit.some, !.c = hit.c,
                          !.tmp_id = IF hit.some THEN 0 ELSE now]]

RaceLookup(w) ==
  /\ workers[w].pc = "lookup"
  /\ \E now \in ClockReadings : RaceLookedUp(w, cache_hit(cache[RaceKey]), now)
  /\ UNCHANGED <<pvars, call, ret>>

RaceSynthesized(w, r) ==
  workers' = [workers EXCEPT ![w] =
                IF r.ok THEN [@ EXCEPT !.pc = "cache_write", !.c = r.c]
                ELSE [@ EXCEPT !.pc = "done", !.out = "err"]]

RaceEngine(w) ==
  /\ workers[w].pc = "engine"
  /\ \E out1 \in EngineOutcomes(resolve_kokoro_voice(voiceEnv), TRUE),
        out2 \in EngineOutcomes(FALLBACK_KOKORO_VOICE, TRUE) :
       RaceSynthesized(w, synthesize_sentence(resolve_kokoro_voice(voiceEnv), out1, out2).r)
  /\ UNCHANGED <<pvars, call, ret>>

\* one of the three writes of cache_write
RaceCacheWrite(w) ==
  /\ workers[w].pc = "cache_write"
  /\ cache' = [cache EXCEPT ![RaceKey] =
                 cache_write(@, workers[w].c.pcm, workers[w].c.sample_rate,
                             workers[w].c.tsv_content, OnlyWrite(3, workers[w].n + 1))]
  /\ workers' = [workers EXCEPT ![w] =
                   IF @.n = 2 THEN [@ EXCEPT !.pc = "stitch", !.n = 0]
                   ELSE [@ EXCEPT !.n = @ + 1]]
  /\ UNCHANGED <<bundle, engine, voiceEnv, pc, req, textIdx, exported, sentences, results,
                 koko, events, outcome, error, ops, prev, nreq, wfails, efails, call, ret>>

RaceStitched(w, st) ==
  workers' = [workers EXCEPT ![w] =
                IF ~st.ok THEN [@ EXCEPT !.pc = "done", !.out = "err"]
                ELSE IF @.kind = "synthesize" THEN [@ EXCEPT !.pc = "done", !.out = "ok"]
                ELSE [@ EXCEPT !.pc = "bundle_write"]]

RaceStitch(w) ==
  /\ workers[w].pc = "stitch"
  /\ RaceStitched(w, stitch_sentences(T_ONE, split_sentences(T_ONE),
                                      <<[off |-> 0, c |-> workers[w].c]>>))
  /\ UNCHANGED <<pvars, call, ret>>

RaceBundleWritten(w, st) ==
  bundle' = [bundle EXCEPT ![RaceKey] =
               bundle_write(@, wav_wrap(st.pcm, st.sample_rate), st.timings,
                            OnlyWrite(2, workers[w].n + 1))]

\* one of the two writes of bundle_write
RaceBundleWrite(w) ==
  /\ workers[w].pc = "bundle_write"
  /\ RaceBundleWritten(w, stitch_sentences(T_ONE, split_sentences(T_ONE),
                                           <<[off |-> 0, c |-> workers[w].c]>>))
  /\ workers' = [workers EXCEPT ![w] =
                   IF @.n = 1 THEN [@ EXCEPT !.pc = "done", !.out = "ok", !.n = 0]
                   ELSE [@ EXCEPT !.n = @ + 1]]
  /\ UNCHANGED <<cache, engine, voiceEnv, pc, req, textIdx, exported, sentences, results,
                 koko, events, outcome, error, ops, prev, nreq, wfails, efails, call, ret>>

NextRace ==
  \E w \in Workers :
    \/ RaceBegin(w)
    \/ RaceLookup(w)
    \/ RaceEngine(w)
    \/ RaceCacheWrite(w)
    \/ RaceStitch(w)
    \/ RaceBundleWrite(w)

SpecRace == InitRace /\ [][NextRace]_vars

\* ------------------------------------------------------------- properties
OpsNamed(names) == {i \in 1..Len(ops) : ops[i].op \in names}

\* every event before the last is a WordBoundary and the last is the AudioReady
CompleteStream(evs) ==
  /\ Len(evs) >= 1
  /\ evs[Len(evs)].event = "AudioReady"
  /\ \A i \in 1..(Len(evs) - 1) : evs[i].event = "WordBoundary"

\* C1: a synthesize request ends either with Ok after zero or more WordBoundary
\* events and exactly one AudioReady event, the last one, or with Err and no
\* event at all; while it runs and has not answered, nothing has been sent.
C1_TwoShapes ==
  req.kind = "synthesize" =>
    IF pc = "done"
    THEN \/ outcome = "ok" /\ CompleteStream(events)
         \/ outcome = "err" /\ events = <<>>
    ELSE events = <<>>

\* the engine failed for the current sentence with the fallback exhausted: the
\* last invocation for a sentence is the fallback voice's, and it failed
Exhausted(i) == ops[i].op = FALLBACK_KOKORO_VOICE /\ ~ops[i].ok

\* C2: once the engine has failed for a sentence with the voice fallback
\* exhausted, the request is over with Err: that failure is the last thing the
\* request did (no later cache lookup or engine run), no event was sent, the
\* text was not stitched, and no bundle file was written for it.
C2_EngineFailureIsFatal ==
  \A i \in 1..Len(ops) :
    Exhausted(i) =>
      /\ i = Len(ops)
      /\ pc = "done"
      /\ outcome = "err"
      /\ events = <<>>
      /\ \A j \in OpsNamed({"stitch", "write_wav", "write_timings"}) :
           ops[j].text # ops[i].text
      /\ req.kind = "export" => /\ ~bundle_hit(bundle[hash_text(CurrentText)]).some
                                /\ ~already_exported(bundle[hash_text(CurrentText)])

\* the fallback is exhausted at the second sentence of a text whose first
\* sentence was synthesized
C2_Witness ==
  /\ pc = "done"
  /\ outcome = "err"
  /\ Len(results) = 1
  /\ Len(sentences) = 2
  /\ ops # <<>>
  /\ Exhausted(Len(ops))
  /\ \E j \in OpsNamed({DEFAULT_KOKORO_VOICE}) : ops[j].ok /\ ops[j].sent = 0

\* C3: a synthesize request whose bundle directory holds a bundle for the text
\* does nothing but the bundle lookup, and answers Ok with one WordBoundary per
\* row of the timings file, in file order, followed by an AudioReady that
\* carries the stored WAV bytes.
C3_BundleServesAlone ==
  (pc = "done" /\ req.kind = "synthesize" /\ req.bundle_path
     /\ bundle_hit(bundle[hash_text(CurrentText)]).some) =>
    LET h == hash_text(CurrentText)
        b == bundle_hit(bundle[h])
    IN /\ ops = <<Op("bundle_hit", 1, 0, h, TRUE)>>
       /\ outcome = "ok"
       /\ Len(events) = Len(b.timings) + 1
       /\ \A i \in 1..Len(b.timings) :
            /\ i <= Len(events)
            /\ events[i] = WordBoundary(text_word_at(CurrentText, b.timings[i].char_offset).word,
                                        b.timings[i].word_index, b.timings[i].char_offset,
                                        b.timings[i].start_ms, b.timings[i].end_ms)
       /\ events # <<>> /\ events[Len(events)] = AudioReady(b.wav_bytes, b.duration_ms)

\* the engine context is resolved only in the step that follows a cache miss
\* of the same sentence, and never after a bundle hit
ResolvedOnlyAtMiss ==
  /\ \A i \in OpsNamed({"resolve"}) :
       /\ i > 1
       /\ ops[i - 1].op = "cache_hit"
       /\ ~ops[i - 1].ok
       /\ ops[i - 1].text = ops[i].text
       /\ ops[i - 1].sent = ops[i].sent
  /\ \A i \in OpsNamed({"bundle_hit"}) : ops[i].ok => Len(ops) = 1

NoCacheMiss == \A i \in OpsNamed({"cache_hit"}) : ops[i].ok

ServedByBundle == ops # <<>> /\ ops[1].op = "bundle_hit" /\ ops[1].ok

SynthRet == ret.v

SynthPrimary == resolve_kokoro_voice(voiceEnv)

SynthFirst == synthesize_sentence_with_voice(call.out1)

SynthSecond == synthesize_sentence_with_voice(call.out2)

\* the messages of `part` all occur in `whole`
Contains(whole, part) == \A i \in 1..Len(part) : \E j \in 1..Len(whole) : whole[j] = part[i]

\* C5: the primary voice (the environment override, else the default) is
\* invoked first; on success its result is returned and nothing else runs; on
\* failure with a primary other than the fallback voice the fallback runs once;
\* its success is returned as it is, with no error; if it fails too the error
\* holds both failures; a failing primary that is the fallback voice is invoked
\* once and its error returned; never more than two invocations.
C5_VoiceFallback ==
  ret.fn = "synthesize_sentence" =>
    /\ SynthPrimary = (IF voiceEnv = None THEN DEFAULT_KOKORO_VOICE ELSE voiceEnv)
    /\ Len(SynthRet.voices) \in {1, 2}
    /\ SynthRet.voices[1] = SynthPrimary
    /\ SynthRet.runs[1] = SynthFirst.ok
    /\ SynthFirst.ok => /\ SynthRet.voices = <<SynthPrimary>>
                        /\ SynthRet.r = SynthFirst
    /\ (~SynthFirst.ok /\ SynthPrimary = FALLBACK_KOKORO_VOICE) =>
         /\ SynthRet.voices = <<SynthPrimary>>
         /\ SynthRet.r = SynthFirst
    /\ (~SynthFirst.ok /\ SynthPrimary # FALLBACK_KOKORO_VOICE) =>
         /\ SynthRet.voices = <<SynthPrimary, FALLBACK_KOKORO_VOICE>>
         /\ SynthRet.runs[2] = SynthSecond.ok
         /\ SynthSecond.ok => SynthRet.r = SynthSecond /\ SynthRet.r.err = <<>>
         /\ ~SynthSecond.ok => /\ ~SynthRet.r.ok
                               /\ Contains(SynthRet.r.err, SynthFirst.err)
                               /\ Contains(SynthRet.r.err, SynthSecond.err)
                               /\ SynthFirst.err # <<>> /\ SynthSecond.err # <<>>

\* the default voice failed and the fallback voice succeeded
C5_Witness ==
  /\ ret.fn = "synthesize_sentence"
  /\ voiceEnv = None
  /\ ~SynthFirst.ok
  /\ SynthRet.voices = <<DEFAULT_KOKORO_VOICE, FALLBACK_KOKORO_VOICE>>
  /\ SynthRet.r.ok
  /\ SynthRet.r.c.pcm = PCM_B

\* C6: every timing list stitch_sentences returns has start_ms <= end_ms in
\* every entry and start_ms non-decreasing from each entry to the next.
C6_TimingsOrdered ==
  (ret.fn = "stitch_sentences" /\ ret.v.ok) =>
    /\ \A i \in 1..Len(ret.v.timings) :
         RatLe(ret.v.timings[i].start_ms, ret.v.timings[i].end_ms)
    /\ \A i \in 1..(Len(ret.v.timings) - 1) :
         RatLe(ret.v.timings[i].start_ms, ret.v.timings[i + 1].start_ms)

\* bytes / 2 / sample rate of sentence k of the call, in milliseconds
PcmDurationMs(k) ==
  Rat(Len(call.results[k].c.pcm) * 1000, 2 * call.results[k].c.sample_rate)

\* the sum of the durations of the first k sentences of the call
RECURSIVE DurationBefore(_)
DurationBefore(k) ==
  IF k = 0 THEN RatZero ELSE RatAdd(DurationBefore(k - 1), PcmDurationMs(k))

Shifted(timings, by) ==
  [i \in 1..Len(timings) |->
     [timings[i] EXCEPT !.start_ms = RatAdd(@, by), !.end_ms = RatAdd(@, by)]]

\* the timings of the first k sentences, each sentence's own timings shifted by
\* the durations of the sentences before it
RECURSIVE ShiftedTimings(_)
ShiftedTimings(k) ==
  IF k = 0 THEN <<>>
  ELSE ShiftedTimings(k - 1)
         \o Shifted(SentenceTimings(call.text, call.sentences, call.results[k], RatZero),
                    DurationBefore(k - 1))

\* C7: stitch_sentences takes each sentence's duration from its PCM length
\* alone (bytes / 2 / the sentence's sample rate), shifts the timings of
\* sentence k by the durations of the sentences before it, and returns the
\* sum of all durations as duration_ms.
C7_DurationsFromPcm ==
  (ret.fn = "stitch_sentences" /\ ret.v.ok) =>
    /\ ret.v.duration_ms = DurationBefore(Len(call.results))
    /\ ret.v.timings = ShiftedTimings(Len(call.results))

\* three sentences of different lengths and rates, the last one with timings
\* that start after the audio of the first two
C7_Witness ==
  /\ ret.fn = "stitch_sentences"
  /\ ret.v.ok
  /\ Len(call.results) = 3
  /\ call.results[1].c.sample_rate # call.results[2].c.sample_rate
  /\ call.results[1].c.pcm = PCM_B
  /\ call.results[2].c.pcm = PCM_A
  /\ call.results[3].c.pcm = PCM_B
  /\ call.results[3].c.tsv_content = <<>>
  /\ ret.v.timings # <<>>
  /\ ret.v.timings[Len(ret.v.timings)].start_ms = DurationBefore(2)
  /\ ~RatLe(ret.v.duration_ms, DurationBefore(2))

\* the running request is an export_audio over the texts of the export_audio
\* that returned Ok just before it
SecondExport == prev.kind = "export" /\ req.kind = "export" /\ req.texts = prev.texts

NoWork ==
  /\ \A i \in 1..Len(ops) : ops[i].op = "skip"
  /\ exported = 0
  /\ outcome \in {"none", "ok"}
  /\ pc = "done" => outcome = "ok"

WriteFailed == \E i \in OpsNamed({"write_wav", "write_timings"}) : ~ops[i].ok

\* C9: when an export_audio whose own writes all took effect returns Ok, every
\* text of its list has a bundle that bundle_hit returns, whatever an earlier
\* export left in the directory.
C9_ExportCompletesBundles ==
  (pc = "done" /\ req.kind = "export" /\ outcome = "ok" /\ ~WriteFailed) =>
    \A i \in 1..Len(req.texts) : bundle_hit(bundle[hash_text(req.texts[i])]).some

\* the texts of the list whose bundle this call wrote: both files took effect
NewlyWritten ==
  {i \in OpsNamed({"write_wav"}) : ops[i].ok /\ ops[i + 1].op = "write_timings" /\ ops[i + 1].ok}

\* C10 as stated: the count of a successful export_audio is the number of
\* texts not skipped whose bundle this call newly wrote.
C10_CountsWritten ==
  (pc = "done" /\ req.kind = "export" /\ outcome = "ok") =>
    exported = Cardinality(NewlyWritten)

\* C10, amended: the count of a successful export_audio is the number of texts
\* of the list that were not skipped, each of which was synthesized and handed
\* to bundle_write, whether or not the files took effect.
C10_CountsAttempted ==
  req.kind = "export" =>
    /\ exported = Cardinality(OpsNamed({"write_wav"}))
    /\ (pc = "done" /\ outcome = "ok") =>
         exported = Len(req.texts) - Cardinality(OpsNamed({"skip"}))

\* a call that skipped one text and counted another whose write failed
C10_Witness ==
  /\ pc = "done"
  /\ req.kind = "export"
  /\ outcome = "ok"
  /\ exported = 1
  /\ Cardinality(OpsNamed({"skip"})) = 1
  /\ WriteFailed

\* what cache_write was asked to store
Written == CachedSentence(call.pcm, call.sample_rate, call.tsv_content)

AllWritesOk == \A i \in 1..3 : call.w[i] = "ok"

CacheWrites(w) == workers[w].pc = "cache_write" /\ workers'[w] # workers[w]

BundleWrites(w) == workers[w].pc = "bundle_write" /\ workers'[w] # workers[w]

CacheLanded == cache[RaceKey].pcm.exists /\ cache[RaceKey].meta.exists /\ cache[RaceKey].tsv.exists

BundleLanded == bundle[RaceKey].wav.exists /\ bundle[RaceKey].timings.exists

\* worker v missed the key and has since written the whole entry / bundle
WroteCache(v) ==
  /\ ~workers[v].hit
  /\ workers[v].pc \in {"stitch", "bundle_write"} \/ workers[v].out \in {"ok"}

WroteBundle(v) == workers[v].kind = "export" /\ workers[v].out = "ok"

\* C12 as stated: once a key's cache entry, or a text's bundle, is on disk, no
\* later step of any request, the same or a concurrent one, writes it again.
C12_WriteOnce ==
  [][/\ CacheLanded => \A w \in Workers : ~CacheWrites(w)
     /\ BundleLanded => \A w \in Workers : ~BundleWrites(w)]_vars

\* What does hold: a request writes a cache key only after its own lookup of the
\* key missed, and a bundle only after its own check found no WAV; an entry
\* that is there at the lookup is never written by that request.  A key that
\* is on disk is written again only by a request that overlaps the one that
\* wrote it: both looked before either had written.
WrittenAfterOwnMiss ==
  /\ \A w \in Workers :
       workers[w].pc = "cache_write" => ~workers[w].hit
  /\ \A w \in Workers :
       workers[w].hit => workers[w].pc \notin {"engine", "cache_write"}
  /\ \A w \in Workers :
       (workers[w].pc = "cache_write" /\ CacheLanded /\ workers[w].n = 0)
         => \E v \in Workers \ {w} : WroteCache(v)
  /\ \A w \in Workers :
       (workers[w].pc = "bundle_write" /\ BundleLanded /\ workers[w].n = 0)
         => \E v \in Workers \ {w} : WroteBundle(v)

\* both requests missed, both wrote, and the second write replaced the first
\* with different audio
OverwrittenByOverlap ==
  /\ \A w \in Workers : workers[w].pc = "done" /\ workers[w].out = "ok" /\ ~workers[w].hit
  /\ \E w \in Workers : workers[w].c.pcm # cache[RaceKey].pcm.content
  /\ CacheLanded

\* ---- C13
WriteNames == {"write_pcm", "write_meta", "write_tsv", "write_wav", "write_timings"}

\* the writes of the step that did not take effect
FailedWriteOps ==
  {i \in (Len(ops) + 1)..Len(ops') : ops'[i].op \in WriteNames /\ ~ops'[i].ok}

\* C13 as stated: the outcome of a request is the one it has when every write
\* takes effect.  With every write in effect a sentence that the request has
\* already got is served by the cache when its text occurs again: the later
\* occurrence has the same audio and alignment, and cannot be where the
\* request fails.
C13_OutcomeIgnoresWrites ==
  pc \in {"sentences", "done"} =>
    /\ \A i, j \in 1..Len(results) :
         sentences[i].text = sentences[j].text => results[i].c = results[j].c
    /\ (outcome = "err" /\ Len(results) < Len(sentences)) =>
         \A i \in 1..Len(results) : sentences[i].text # sentences[Len(results) + 1].text

\* What does hold: a write that fails is not reported and does not by itself end
\* or alter the request: the step that contains it leaves outcome, error and
\* events alone, pushes the synthesized sentence (cache_write) or counts the
\* text and goes on to the next one (bundle_write).
WriteFailureIsSilent ==
  [][FailedWriteOps # {} =>
       /\ outcome' = outcome /\ error' = error /\ events' = events
       /\ \/ /\ pc' = "sentences"
             /\ Len(results') = Len(results) + 1
             /\ SubSeq(results', 1, Len(results)) = results
             /\ results'[Len(results')].c.pcm \in {PCM_A, PCM_B}
          \/ /\ pc' = "export"
             /\ exported' = exported + 1
             /\ textIdx' = textIdx + 1]_vars

\* a synthesize that returned Ok with its events although a cache write failed
WriteFailureSurvived ==
  /\ pc = "done" /\ req.kind = "synthesize" /\ outcome = "ok"
  /\ events # <<>>
  /\ \E i \in 1..Len(ops) : ops[i].op \in WriteNames /\ ~ops[i].ok

\* ---- C14
\* C14: what a successful wav_to_int16_pcm returned is wrapped by wav_wrap, and
\* decoding the wrapped bytes succeeds with the identical PCM and sample rate.
C14_RoundTrip ==
  /\ ret.fn = "wav_wrap" => ~ret.panicked
  /\ ret.fn = "again" =>
       /\ ret.again.ok
       /\ ret.again.pcm = ret.first.pcm
       /\ ret.again.sample_rate = ret.first.sample_rate

\* What does hold: whenever wav_wrap returns, the round trip is exact, also
\* for the rates whose byte rate wrapped.
RoundTripUnlessPanic ==
  ret.fn = "again" =>
    /\ ret.again.ok
    /\ ret.again.pcm = ret.first.pcm
    /\ ret.again.sample_rate = ret.first.sample_rate

\* ---- C15
Pcm16Pairs == {<<1, 16>>, <<65534, 16>>}

Float32Pairs == {<<3, 32>>, <<65534, 32>>}

\* the first decode of a file with one fmt chunk and one data chunk
PlainDecoded == call.fn = "wav_to_int16_pcm" /\ call.shape = "plain" /\ ret.fn # "none"

\* C15: with at least one channel, (1,16) and (0xFFFE,16) are decoded by the
\* PCM16 decoder and (3,32) and (0xFFFE,32) by the float32 decoder; every
\* other pair is an error whose message holds the format code and the bit
\* depth; zero channels are an error for every pair.
C15_FourPairs ==
  PlainDecoded =>
    IF call.num_channels = 0 THEN ~ret.first.ok /\ ret.first.err = "WAV has zero channels"
    ELSE IF <<call.format, call.bits_per_sample>> \in Pcm16Pairs
    THEN ret.first = pcm16_to_mono(call.data, call.num_channels, call.sample_rate)
    ELSE IF <<call.format, call.bits_per_sample>> \in Float32Pairs
    THEN ret.first = float32_to_mono(call.data, call.num_channels, call.sample_rate)
    ELSE /\ ~ret.first.ok
         /\ ret.first.err = "Unsupported WAV format: format=" \o ToString(call.format)
                              \o " bits=" \o ToString(call.bits_per_sample)

\* an unsupported pair was refused, a float32 file was decoded, and a PCM16
\* file with two channels was mixed down to one sample
C15_Witness ==
  /\ PlainDecoded
  /\ \/ call.format = 3 /\ call.bits_per_sample = 16 /\ call.num_channels = 1 /\ ~ret.first.ok
     \/ call.format = 3 /\ call.bits_per_sample = 32 /\ ret.first.ok
          /\ Len(ret.first.pcm) = 4
     \/ call.format = 1 /\ call.bits_per_sample = 16 /\ call.num_channels = 2
          /\ ret.first.ok /\ Len(ret.first.pcm) = 2

\* ---- C16
Wrapped == ret.fn \in {"wav_wrap", "again"} /\ ~ret.panicked

\* the byte-rate field `br` holds twice the u32 `rate`
IsTwice(br, rate) ==
  /\ (br \div 65536) % 65536 = 2 * ((rate \div 65536) % 65536) + (2 * (rate % 65536)) \div 65536
  /\ br % 65536 = (2 * (rate % 65536)) % 65536

\* the header fields other than the byte rate, and the PCM after them
CanonicalHeader(out, pcm, rate) ==
  /\ Len(out) = 44 + Len(pcm)
  /\ SubSeq(out, 45, Len(out)) = pcm
  /\ SubSeq(out, 1, 4) = RIFF /\ SubSeq(out, 9, 16) = WAVE \o FMT /\ SubSeq(out, 37, 40) = DATA
  /\ ReadU32(out, 4) = 36 + Len(pcm)
  /\ ReadU32(out, 16) = 16
  /\ ReadU16(out, 20) = 1
  /\ ReadU16(out, 22) = 1
  /\ ReadU32(out, 24) = rate
  /\ ReadU16(out, 32) = 2
  /\ ReadU16(out, 34) = 16
  /\ ReadU32(out, 40) = Len(pcm)

Split == call.fn = "split_sentences" /\ ret # NoRet

\* the last positions of the terminator runs that are followed by one of `ws`
\* or by the end of the text
RunEnds(text, ws) ==
  {e \in 1..Len(text) : text[e] \in Terminators /\ (e = Len(text) \/ text[e + 1] \in ws)}

\* where the piece that ends at `c` begins
PieceStart(text, ws, c) ==
  LET before == {e \in RunEnds(text, ws) : e < c}
  IN IF before = {} THEN 1 ELSE 1 + CHOOSE e \in before : \A f \in before : f <= e

\* position `k` of the text is whitespace before or after the sentence [from, to]
Blank(text, k) == text[k] \in UnicodeWhitespace

\* the sentence of the piece that ends at `c`: the piece without the
\* whitespace at its two ends
IsSentenceOf(sent, text, first, c) ==
  /\ sent.text # <<>>
  /\ first <= sent.off + 1 /\ sent.off + Len(sent.text) <= c
  /\ SubSeq(text, sent.off + 1, sent.off + Len(sent.text)) = sent.text
  /\ \A k \in first..c :
       (k <= sent.off \/ k > sent.off + Len(sent.text)) => Blank(text, k)
  /\ ~Blank(text, sent.off + 1) /\ ~Blank(text, sent.off + Len(sent.text))

\* the pieces that hold something besides whitespace
Pieces(text, ws) ==
  {c \in RunEnds(text, ws) \cup {Len(text)} :
     \E k \in PieceStart(text, ws, c)..c : ~Blank(text, k)}

\* the sentences are the pieces cut at the run ends, in order, without their
\* outer whitespace
CutAt(text, sents, ws) ==
  /\ Len(sents) = Cardinality(Pieces(text, ws))
  /\ \A c \in Pieces(text, ws) :
       \E i \in 1..Len(sents) : IsSentenceOf(sents[i], text, PieceStart(text, ws, c), c)
  /\ \A i, j \in 1..Len(sents) : i < j => sents[i].off < sents[j].off

NoTerminator(text) == \A k \in 1..Len(text) : text[k] \notin Terminators

AllBlank(text) == \A k \in 1..Len(text) : Blank(text, k)

\* C18 as stated: a text without `.`, `!`, `?`, the empty text and the text of
\* whitespace included, gives exactly one sentence, the trimmed text, at the
\* offset of its first character that is not whitespace.
C18_OneSentence ==
  (Split /\ NoTerminator(call.text)) =>
    /\ Len(ret.sentences) = 1
    /\ ret.sentences[1].text = Trim(call.text)
    /\ ret.sentences[1].off = TrimStartLen(call.text)

\* C18, amended: such a text gives no sentence when it is empty or holds only
\* whitespace, and otherwise exactly one sentence, the trimmed text, at the
\* offset of its first character that is not whitespace.
C18_OneSentenceUnlessBlank ==
  (Split /\ NoTerminator(call.text)) =>
    IF AllBlank(call.text) THEN ret.sentences = <<>>
    ELSE /\ Len(ret.sentences) = 1
         /\ IsSentenceOf(ret.sentences[1], call.text, 1, Len(call.text))
         /\ ret.sentences[1].off =
              Cardinality({k \in 1..Len(call.text) :
                             \A m \in 1..k : Blank(call.text, m)})

\* whitespace on both sides of the one sentence
C18_Witness ==
  /\ Split
  /\ call.text = <<" ", "VT", "a", "a", " ">>
  /\ ret.sentences = <<[off |-> 2, text |-> <<"a", "a">>]>>

\* ---- C19
\* a token of the text starts at 0-based offset `off`
TokenStart(text, off) ==
  /\ off < Len(text)
  /\ ~Blank(text, off + 1)
  /\ off = 0 \/ Blank(text, off)

\* `word` is the whole token that starts at `off`
IsTokenAt(text, off, word) ==
  /\ TokenStart(text, off)
  /\ word # <<>>
  /\ off + Len(word) <= Len(text)
  /\ SubSeq(text, off + 1, off + Len(word)) = word
  /\ \A k \in 1..Len(word) : ~Blank(text, off + k)
  /\ off + Len(word) = Len(text) \/ Blank(text, off + Len(word) + 1)

TokensBefore(text, off) == Cardinality({k \in 0..(off - 1) : TokenStart(text, k)})

\* the events of a synthesize that was not served by a bundle
SynthesizedEvents ==
  IF pc = "done" /\ req.kind = "synthesize" /\ ~ServedByBundle THEN events ELSE <<>>

\* C19: on the synthesis path the word of every WordBoundary event is the token
\* of the request text that starts at the event's char_offset, and that token
\* is the word_index-th token of the text.
C19_WordFromText ==
  \A i \in 1..Len(SynthesizedEvents) :
    SynthesizedEvents[i].event = "WordBoundary" =>
      /\ IsTokenAt(CurrentText, SynthesizedEvents[i].char_offset, SynthesizedEvents[i].word)
      /\ SynthesizedEvents[i].word_index =
           TokensBefore(CurrentText, SynthesizedEvents[i].char_offset)

\* "a b. a." synthesized with alignment rows that spell the second word "b":
\* its event carries "b." at offset 2
C19_Witness ==
  /\ Len(SynthesizedEvents) = 4
  /\ \E i \in 1..Len(results) : results[i].c.tsv_content = TSV_ROWS
  /\ SynthesizedEvents[2].word = <<"b", ".">>
  /\ SynthesizedEvents[2].char_offset = 2
  /\ SynthesizedEvents[2].word_index = 1

\* ---- C20
Hashed == call.fn = "hash_text" /\ Len(ret.keys) = 2

EmptyAudio(out) ==
  /\ out.run = "exit_ok"
  /\ out.wav.exists
  /\ out.wav.content = <<>> \/ out.wav.content \in WAV_NO_FRAME

SynthReturned == call.fn = "synthesize_sentence" /\ ret.fn = "synthesize_sentence"

\* C21: synthesize_sentence never returns Ok with empty PCM; a run that exits
\* with success and leaves an empty file, or a WAV whose data chunk holds less
\* than one frame, is a failed invocation: the fallback voice is invoked after
\* it unless it was the fallback voice's own run, and when both runs are of
\* that kind the sentence fails.
C21_NoEmptySuccess ==
  SynthReturned =>
    /\ ret.v.r.ok => ret.v.r.c.pcm # <<>>
    /\ EmptyAudio(call.out1) =>
         /\ ret.v.runs[1] = FALSE
         /\ Len(ret.v.voices) = IF voiceEnv = FALLBACK_KOKORO_VOICE THEN 1 ELSE 2
         /\ Len(ret.v.voices) = 1 => ~ret.v.r.ok
         /\ Len(ret.v.voices) = 2 =>
              /\ ret.v.voices[2] = FALLBACK_KOKORO_VOICE
              /\ EmptyAudio(call.out2) => ~ret.v.r.ok /\ ret.v.runs[2] = FALSE

\* the default voice left a WAV header without a frame, and the fallback voice
\* then gave the sentence its audio
C21_Witness ==
  /\ SynthReturned
  /\ call.out1.wav.content \in WAV_NO_FRAME
  /\ voiceEnv = None
  /\ ret.v.voices = <<DEFAULT_KOKORO_VOICE, FALLBACK_KOKORO_VOICE>>
  /\ ret.v.r.ok /\ ret.v.r.c.pcm = PCM_B

\* ---- C22
\* the 16-bit sample of channel `ch` in frame `k` of `c` channels
Sample16(data, k, c, ch) == ReadI16(data, 2 * (k * c + ch))

RECURSIVE FrameTotal16(_, _, _, _)
FrameTotal16(data, k, c, upto) ==
  IF upto = 0 THEN 0 ELSE FrameTotal16(data, k, c, upto - 1) + Sample16(data, k, c, upto - 1)

\* q is total / c with the fraction dropped
IsTruncatedQuotient(q, total, c) ==
  IF total >= 0 THEN q * c <= total /\ total < (q + 1) * c
  ELSE (q - 1) * c < total /\ total <= q * c

RECURSIVE FrameTotal32(_, _, _, _)
FrameTotal32(data, k, c, upto) ==
  IF upto = 0 THEN RatZero
  ELSE RatAdd(FrameTotal32(data, k, c, upto - 1), ReadF32(data, 4 * (k * c + upto - 1)))

\* v is 32767 times the average `total / c` held within [-1, 1], fraction dropped
IsScaledAverage(v, total, c) ==
  IF total.n >= c * total.d THEN v = 32767
  ELSE IF total.n <= 0 - c * total.d THEN v = 0 - 32767
  ELSE IsTruncatedQuotient(v, total.n * 32767, c * total.d)

Downmixed16(out, data, c, rate) ==
  /\ out.ok
  /\ out.sample_rate = rate
  /\ Len(out.pcm) = 2 * (Len(data) \div (2 * c))
  /\ \A k \in 0..(Len(data) \div (2 * c)) - 1 :
       IsTruncatedQuotient(ReadI16(out.pcm, 2 * k), FrameTotal16(data, k, c, c), c)

Downmixed32(out, data, c, rate) ==
  /\ out.ok
  /\ out.sample_rate = rate
  /\ Len(out.pcm) = 2 * (Len(data) \div (4 * c))
  /\ \A k \in 0..(Len(data) \div (4 * c)) - 1 :
       IsScaledAverage(ReadI16(out.pcm, 2 * k), FrameTotal32(data, k, c, c), c)

\* C22: for PCM16 input of c channels the decoder returns one int16 sample per
\* complete frame, in frame order, equal to the sum of the frame's c samples
\* divided by c with the fraction dropped, and the sample rate of the header;
\* for float32 input the sample is the frame's average held within [-1, 1]
\* times 32767, so the frame [1.0, -1.0] at 44100 Hz gives the sample 0 at
\* 44100 Hz.
C22_Downmix ==
  (PlainDecoded /\ call.num_channels >= 1) =>
    /\ (<<call.format, call.bits_per_sample>> \in Pcm16Pairs
          /\ Len(call.data) >= 2 * call.num_channels) =>
         Downmixed16(ret.first, call.data, call.num_channels, call.sample_rate)
    /\ (<<call.format, call.bits_per_sample>> \in Float32Pairs
          /\ Len(call.data) >= 4 * call.num_channels) =>
         Downmixed32(ret.first, call.data, call.num_channels, call.sample_rate)
    /\ (call.format = 3 /\ call.bits_per_sample = 32 /\ call.num_channels = 2
          /\ call.sample_rate = 44100
          /\ call.data = <<0, 0, 128, 63, 0, 0, 128, 191>>) =>
         ret.first = [ok |-> TRUE, err |-> "", pcm |-> <<0, 0>>, sample_rate |-> 44100]

\* the stereo frame (-1, 0) was mixed down to 0, and the sample that follows
\* it without a partner was dropped
C22_Witness ==
  /\ PlainDecoded
  /\ call.format = 1 /\ call.bits_per_sample = 16 /\ call.num_channels = 2
  /\ call.data = <<255, 255, 0, 0, 3, 0>>
  /\ ret.first.ok /\ ret.first.pcm = <<0, 0>>
  /\ ret.first.sample_rate = call.sample_rate

\* ---- C23
\* the positions in `ops` at which the engine context was resolved
Resolutions == {i \in 1..Len(ops) : ops[i].op = "resolve"}

\* the cache misses of the running request, as positions in `ops`
Misses == {i \in 1..Len(ops) : ops[i].op = "cache_hit" /\ ~ops[i].ok}

\* C23: within one synthesize or export_audio call the engine context is
\* resolved at most once, right after the first cache miss of the call, and
\* no later miss of the call, in the same text or a later one, resolves again.
C23_ResolvedOncePerBatch ==
  /\ Cardinality(Resolutions) <= 1
  /\ \A i \in Resolutions : i - 1 \in Misses /\ \A j \in Misses : j >= i - 1

\* What does hold: the context is resolved at most once for each text of the
\* call, right after the first cache miss of that text.
ResolvedOncePerText ==
  \A i \in Resolutions :
    /\ i - 1 \in Misses
    /\ \A j \in Misses : ops[j].text = ops[i].text => j >= i - 1
    /\ \A j \in Resolutions : ops[j].text = ops[i].text => j = i

\* one export_audio call resolved the context for its first text and again
\* for its second
ResolvedAgainForLaterText ==
  /\ req.kind = "export"
  /\ \E i, j \in Resolutions : ops[i].text = 1 /\ ops[j].text = 2 /\ ops[i].ok /\ ops[j].ok

\* ---- C24
NoTmpFiles(left) == ~left.wav.exists /\ ~left.tsv.exists

\* C24: every invocation of synthesize_sentence_with_voice returns with both
\* temporary files gone, so the fallback voice's invocation starts without a
\* file of the primary voice's failed invocation.
C24_TmpFilesRemoved ==
  SynthReturned => \A i \in 1..Len(ret.v.left) : NoTmpFiles(ret.v.left[i])

\* What does hold: both files are gone when the engine exited with a failure
\* or the audio file was read; after an exit with success without an audio
\* file the alignment file stays if the engine wrote one.
TmpFilesRemovedOnceAudioRead ==
  SynthReturned =>
    /\ (call.out1.run = "exit_fail" \/ call.out1.wav.exists) => NoTmpFiles(ret.v.left[1])
    /\ (call.out1.run = "exit_ok" /\ ~call.out1.wav.exists) =>
         ret.v.left[1].tsv = call.out1.tsv
    /\ Len(ret.v.left) = Len(ret.v.voices)

\* the primary voice's run exited with success and left an alignment file but
\* no audio file: the fallback voice was invoked while that file was there
TmpFileLeftForFallback ==
  /\ SynthReturned
  /\ ret.v.voices = <<DEFAULT_KOKORO_VOICE, FALLBACK_KOKORO_VOICE>>
  /\ ret.v.left[1].tsv = File(TSV_ROWS)
  /\ ret.v.r.ok

\* ---- C25
\* the first decode of a file whose last chunk is cut short
TruncatedDecoded ==
  /\ call.fn = "wav_to_int16_pcm"
  /\ call.shape \in {"truncated data", "truncated fmt"}
  /\ ret.fn # "none"

\* C25: a WAV whose data chunk or fmt chunk declares more bytes than the
\* buffer holds is refused with an error, and no PCM comes out of it.
C25_TruncatedRejected ==
  TruncatedDecoded => ~ret.first.ok /\ ret.first.pcm = <<>>

\* What does hold: a chunk that is cut short is taken to end where the buffer
\* ends.  A fmt chunk with fewer than 16 bytes left is refused as too small, a
\* data chunk with less than one frame left is refused as too small, and any
\* other file is decoded from the bytes that are there.
TruncatedChunkIsClamped ==
  TruncatedDecoded =>
    IF call.shape = "truncated fmt" /\ call.data = <<>>
    THEN ~ret.first.ok /\ ret.first.err = "WAV fmt chunk too small"
    ELSE IF Len(call.data) < 2
    THEN ~ret.first.ok /\ ret.first.err = "WAV data chunk too small"
    ELSE /\ ret.first.ok
         /\ ret.first.pcm = SubSeq(call.data, 1, 2 * (Len(call.data) \div 2))
         /\ ret.first.sample_rate = call.sample_rate

\* a data chunk of 4 bytes of which the file holds 3 was decoded to one sample
TruncatedDataDecoded ==
  /\ TruncatedDecoded
  /\ call.shape = "truncated data"
  /\ call.data = <<1, 0, 2>>
  /\ ret.first.ok /\ ret.first.pcm = <<1, 0>>

\* ---- C26
\* the first decode of a file with unknown chunks around its fmt and data
\* chunks, or with a fmt chunk of more than 16 bytes
LaidOutDecoded == call.fn = "wav_to_int16_pcm" /\ call.shape = "laid out" /\ ret.fn # "none"

\* C26: unknown chunks before, between and after the fmt and data chunks, of
\* odd or even size, and a fmt chunk longer than 16 bytes leave the result of
\* wav_to_int16_pcm what it is for the file with the two chunks alone.
C26_LayoutInsensitive ==
  LaidOutDecoded =>
    ret.first = wav_to_int16_pcm(MakeWav(call.format, call.num_channels, call.sample_rate,
                                         call.bits_per_sample, call.data))

\* a stereo PCM16 file of 110 bytes, with two unknown chunks in each of the
\* three places and a fmt chunk of 40 bytes, was decoded to its one frame
C26_Witness ==
  /\ LaidOutDecoded
  /\ Len(call.wav_bytes) = 12 + 3 * 20 + 48 + 14
  /\ call.format = 1 /\ call.bits_per_sample = 16 /\ call.num_channels = 2
  /\ call.data = <<255, 255, 0, 0, 3, 0>>
  /\ ret.first.ok /\ ret.first.pcm = <<0, 0>> /\ ret.first.sample_rate = ENGINE_SAMPLE_RATE

\* ---- C27
Stitched == call.fn = "stitch_sentences" /\ ret.fn = "stitch_sentences" /\ ret.v.ok

\* the rows of an alignment file that count: three fields or more, and a word
\* that is not punctuation alone
UsableRows(tsv) ==
  {i \in 2..Len(tsv) :
     Len(tsv[i]) >= 3 /\ \E c \in 1..Len(tsv[i][1]) : tsv[i][1][c] \notin AsciiPunctuation}

InSentence(k, char_offset) ==
  /\ char_offset >= call.sentences[k].off
  /\ char_offset < call.sentences[k].off + Len(call.sentences[k].text)

\* the words of the text that start in sentence k, and the returned timings
\* that belong to them, as positions
LocalWords(k) ==
  {w \in 1..Len(extract_input_words(call.text)) :
     InSentence(k, extract_input_words(call.text)[w].char_offset)}

EntriesOf(k) ==
  {i \in 1..Len(ret.v.timings) : InSentence(k, ret.v.timings[i].char_offset)}

\* how many members of the set of positions lie before position i
RankIn(set, i) == Cardinality({j \in set : j < i})

\* entry i is slice number `slice` (from 0) of n equal slices of d, after `offset`
IsSlice(entry, slice, n, d, offset) ==
  /\ entry.start_ms = RatAdd(offset, RatMul(Rat(slice, n), d))
  /\ entry.end_ms = RatAdd(offset, RatMul(Rat(slice + 1, n), d))

EqualSlices(k) ==
  /\ Cardinality(EntriesOf(k)) = Cardinality(LocalWords(k))
  /\ \A i \in EntriesOf(k) :
       IsSlice(ret.v.timings[i], RankIn(EntriesOf(k), i), Cardinality(LocalWords(k)),
               PcmDurationMs(k), DurationBefore(k - 1))
  /\ \A i \in EntriesOf(k) :
       /\ RankIn(EntriesOf(k), i) = 0 => ret.v.timings[i].start_ms = DurationBefore(k - 1)
       /\ RankIn(EntriesOf(k), i) > 0 =>
            ret.v.timings[i].start_ms = ret.v.timings[i - 1].end_ms
       /\ RankIn(EntriesOf(k), i) = Cardinality(LocalWords(k)) - 1 =>
            ret.v.timings[i].end_ms = DurationBefore(k)

\* C27: a sentence whose alignment has no usable row (empty, a header alone,
\* or rows of punctuation only) gives each of its n local words, from left to
\* right, one of n equal slices of the sentence's PCM duration d: word i gets
\* [offset + i*d/n, offset + (i+1)*d/n], the first starts at the sentence's
\* offset, each starts where the one before ends, the last ends at offset + d.
C27_EqualSlices ==
  Stitched =>
    \A k \in 1..Len(call.results) :
      UsableRows(call.results[k].c.tsv_content) = {} => EqualSlices(k)

\* "a b. a." whose first sentence has 4 bytes of PCM at 24000 Hz and a header
\* without rows: its two words share 1/12 ms in halves, and the second
\* sentence, with punctuation rows only, has the whole of its own duration
C27_Witness ==
  /\ Stitched
  /\ call.text = T_TWO
  /\ call.results[1].c = CachedSentence(PCM_B, ENGINE_SAMPLE_RATE, TSV_HEADER_ONLY)
  /\ call.results[2].c = CachedSentence(PCM_A, ENGINE_SAMPLE_RATE, TSV_NO_WORD)
  /\ Len(ret.v.timings) = 3
  /\ ret.v.timings[1].end_ms = Rat(1, 24) /\ ret.v.timings[2].start_ms = Rat(1, 24)
  /\ ret.v.timings[2].end_ms = Rat(1, 12) /\ ret.v.timings[3].start_ms = Rat(1, 12)
  /\ ret.v.timings[3].end_ms = Rat(1, 8)

\* ---- C28
\* the field of a row as a number of seconds, 0 if it is none
Seconds(field) == IF IsRat(field) THEN field ELSE RatZero

\* the position in the file of usable row number `rank` (from 0)
UsableRowAt(tsv, rank) ==
  CHOOSE i \in UsableRows(tsv) : RankIn(UsableRows(tsv), i) = rank

\* the local word number `rank` (from 0) of sentence k
LocalWordAt(k, rank) ==
  extract_input_words(call.text)[CHOOSE w \in LocalWords(k) : RankIn(LocalWords(k), w) = rank]

\* entry `e` is the local word number `rank` with the times of `row`, after `offset`
IsRowOfWord(e, k, rank, row, offset) ==
  /\ e.char_offset = LocalWordAt(k, rank).char_offset
  /\ e.word_index = LocalWordAt(k, rank).index
  /\ e.start_ms = RatAdd(RatMul(Seconds(row[2]), RatInt(1000)), offset)
  /\ e.end_ms = RatAdd(RatMul(Seconds(row[3]), RatInt(1000)), offset)

RowsByPosition(k, tsv) ==
  /\ Cardinality(EntriesOf(k)) = Min(Cardinality(UsableRows(tsv)), Cardinality(LocalWords(k)))
  /\ \A i \in EntriesOf(k) :
       IsRowOfWord(ret.v.timings[i], k, RankIn(EntriesOf(k), i),
                   tsv[UsableRowAt(tsv, RankIn(EntriesOf(k), i))], DurationBefore(k - 1))

\* C28: a sentence with r >= 1 usable rows and n local words gets min(r, n)
\* timings: local word i takes the start and end of row i, whatever the row's
\* word is; the local words from r on get no timing, the rows from n on are
\* not used.
C28_RowsByPosition ==
  Stitched =>
    \A k \in 1..Len(call.results) :
      UsableRows(call.results[k].c.tsv_content) # {} =>
        RowsByPosition(k, call.results[k].c.tsv_content)

\* "a b. a.": the first sentence has two words and one row, so "b." has no
\* timing; the second has one word and two rows, so the row of "b" is not used
C28_Witness ==
  /\ Stitched
  /\ call.text = T_TWO
  /\ call.results[1].c.tsv_content = TSV_NO_END
  /\ call.results[2].c.tsv_content = TSV_ROWS
  /\ Len(ret.v.timings) = 2
  /\ ret.v.timings[1].word_index = 0
  /\ ret.v.timings[2].word_index = 2
  /\ ret.v.timings[2].end_ms = RatAdd(Rat(10, 1), DurationBefore(1))

\* the row after a punctuation row is the first usable row
RowAfterPunctuationTaken ==
  /\ Stitched
  /\ call.text = T_TWO
  /\ call.results[1].c.tsv_content = TSV_AFTER_PUNCT
  /\ Len(ret.v.timings) >= 1
  /\ ret.v.timings[1].start_ms = Rat(10, 1)

\* ---- C29
\* the number of PCM bytes of the first k sentences of the call
RECURSIVE PcmBytesBefore(_)
PcmBytesBefore(k) ==
  IF k = 0 THEN 0 ELSE PcmBytesBefore(k - 1) + Len(call.results[k].c.pcm)

\* the PCM of sentence k lies in `pcm` right after the PCM of the sentences
\* before it
PcmInPlace(pcm, k) ==
  SubSeq(pcm, PcmBytesBefore(k - 1) + 1, PcmBytesBefore(k)) = call.results[k].c.pcm

\* C29: the PCM stitch_sentences returns is the PCM of the sentences one after
\* the other in sentence order, its length the sum of their lengths, and the
\* sample rate is that of the first sentence whatever the rates of the others.
C29_PcmConcatenated ==
  Stitched =>
    /\ Len(ret.v.pcm) = PcmBytesBefore(Len(call.results))
    /\ \A k \in 1..Len(call.results) : PcmInPlace(ret.v.pcm, k)
    /\ ret.v.sample_rate = call.results[1].c.sample_rate

\* three sentences of 2, 0 and 4 bytes, the first at 48000 Hz and the last at
\* 24000 Hz: 6 bytes at 48000 Hz
C29_Witness ==
  /\ Stitched
  /\ Len(call.results) = 3
  /\ call.results[1].c.pcm = PCM_A /\ call.results[1].c.sample_rate = 2 * ENGINE_SAMPLE_RATE
  /\ call.results[2].c.pcm = <<>>
  /\ call.results[3].c.pcm = PCM_B /\ call.results[3].c.sample_rate = ENGINE_SAMPLE_RATE
  /\ ret.v.pcm = PCM_A \o PCM_B
  /\ ret.v.sample_rate = 2 * ENGINE_SAMPLE_RATE

\* ---- C30
StitchReturned == call.fn = "stitch_sentences" /\ ret.fn \in {"stitch_sentences", "synthesize"}

\* C30: stitch_sentences returns an error exactly when the sentences have no
\* PCM byte between them; so a text without a sentence ends the request in an
\* error before any event is sent, and sentences of which one has PCM are
\* stitched.
C30_ErrorIffNoAudio ==
  StitchReturned =>
    /\ ~ret.v.ok <=> \A k \in 1..Len(call.results) : call.results[k].c.pcm = <<>>
    /\ ~ret.v.ok => ret.v.err = "No audio produced for any sentence"
    /\ (ret.fn = "synthesize" /\ call.sentences = <<>>) =>
         ret.outcome = "err" /\ ret.events = <<>>
    /\ (ret.fn = "synthesize" /\ ret.v.ok) => ret.events # <<>>

\* the request for the empty text ended in an error without an event, and so
\* did a request whose two sentences came without PCM
C30_Witness ==
  /\ ret.fn = "synthesize"
  /\ ret.outcome = "err" /\ ret.events = <<>>
  /\ \/ call.text = T_EMPTY /\ call.results = <<>>
     \/ Len(call.results) = 2 /\ call.results[1].c.tsv_content = TSV_ROWS

\* Where the request is run as a whole: a synthesize or export_audio of the
\* empty text ends in an error, without an event and without a file written.
AtEmptyText ==
  /\ pc = "done"
  /\ textIdx <= Len(req.texts)
  /\ CurrentText = T_EMPTY

EmptyTextRequestFails ==
  AtEmptyText =>
    /\ outcome = "err"
    /\ events = <<>>
    /\ error = <<"No audio produced for any sentence">>
    /\ ops[Len(ops)] = Op("stitch", textIdx, 0, hash_text(T_EMPTY), FALSE)

EmptyTextRequested == AtEmptyText /\ req.kind = "export" /\ textIdx = 2

\* ---- C31
\* worker w synthesized the sentence itself and is writing it or has written it
Writer(w) ==
  /\ ~workers[w].hit
  /\ workers[w].pc \in {"cache_write", "stitch", "bundle_write"} \/ workers[w].out = "ok"

\* every writer is through with cache_write
WritersDone == \A w \in Workers : Writer(w) => workers[w].pc # "cache_write"

\* C31: two writes of one cache key carry the same PCM, sample rate and
\* alignment, so once the writers of a key are through the entry reads as what
\* one of them wrote.
C31_IdenticalPayloads ==
  /\ \A v, w \in Workers : (Writer(v) /\ Writer(w)) => workers[v].c = workers[w].c
  /\ (WritersDone /\ \E w \in Workers : Writer(w)) =>
       \E w \in Workers : Writer(w) /\ cache_hit(cache[RaceKey]).c = workers[w].c

\* What does hold: each of the three files of the entry holds what one of the
\* writers gave to that file.
EachFileFromSomeWriter ==
  (WritersDone /\ \E w \in Workers : Writer(w)) =>
    /\ cache_hit(cache[RaceKey]).some
    /\ \E w \in Workers : Writer(w) /\ cache_hit(cache[RaceKey]).c.pcm = workers[w].c.pcm
    /\ \E w \in Workers :
         Writer(w) /\ cache_hit(cache[RaceKey]).c.sample_rate = workers[w].c.sample_rate
    /\ \E w \in Workers :
         Writer(w) /\ cache_hit(cache[RaceKey]).c.tsv_content = workers[w].c.tsv_content

\* one request wrote the default voice's audio, the other the fallback voice's
\* audio and alignment, and the entry is the audio of the one with the
\* alignment of the other
MixedEntry ==
  /\ \A w \in Workers : Writer(w) /\ workers[w].pc = "done"
  /\ cache_hit(cache[RaceKey]).c = CachedSentence(PCM_A, ENGINE_SAMPLE_RATE, TSV_ROWS)

\* ---- C32
\* the engine of worker w runs: its two temporary files are named by the
\* worker's tmp_id and the sentence index, which is 0 for the one sentence
EngineInFlight(w) == workers[w].pc = "engine"

\* C32: two requests whose engines run at the same time have different tmp_id,
\* and so different temporary file paths.
C32_DistinctTmpPaths ==
  \A v, w \in Workers :
    (v # w /\ EngineInFlight(v) /\ EngineInFlight(w)) => workers[v].tmp_id # workers[w].tmp_id

\* What does hold: the tmp_id of a request is the clock reading of its own
\* context resolution; two requests have different paths exactly when the
\* clock advanced between the two resolutions.
TmpIdIsClockReading ==
  \A w \in Workers :
    /\ workers[w].pc = "engine" => workers[w].tmp_id \in 1..ClockTicks
    /\ workers[w].hit => workers[w].tmp_id = 0

\* both engines run for sentence 0 with the tmp_id of the same clock tick
SameTmpPathInFlight ==
  /\ \A w \in Workers : EngineInFlight(w)
  /\ workers[1].tmp_id = workers[2].tmp_id

\* ---- C33
\* the positions of the text that sentence `s` spans
Span(s) == (s.off + 1)..(s.off + Len(s.text))

\* a sentence is not empty, starts and ends with a character that is not
\* whitespace, and is the slice of the text at its offset
ValidSentence(text, s) ==
  /\ s.text # <<>>
  /\ s.text[1] \notin UnicodeWhitespace
  /\ s.text[Len(s.text)] \notin UnicodeWhitespace
  /\ s.off + Len(s.text) <= Len(text)
  /\ \A k \in 1..Len(s.text) : text[s.off + k] = s.text[k]

\* C33: split_sentences returns for every text, and what it returns is a
\* valid sentence list: every sentence is non-empty, has no whitespace at
\* either end and is the slice of the text at its offset; the offsets
\* increase strictly and the spans do not overlap; every character of the
\* text that is not whitespace lies in exactly one sentence.
C33_ValidSentenceList ==
  (call.fn = "split_sentences") =>
    /\ ENABLED ApplySplitSentences \/ Split
    /\ Split =>
         /\ \A i \in 1..Len(ret.sentences) : ValidSentence(call.text, ret.sentences[i])
         /\ \A i, j \in 1..Len(ret.sentences) :
              i < j => /\ ret.sentences[i].off < ret.sentences[j].off
                       /\ Span(ret.sentences[i]) \cap Span(ret.sentences[j]) = {}
         /\ \A k \in 1..Len(call.text) :
              call.text[k] \notin UnicodeWhitespace =>
                Cardinality({i \in 1..Len(ret.sentences) : k \in Span(ret.sentences[i])}) = 1

\* whitespace before the one sentence, and a tail of U+000B that is no sentence
C33_Witness ==
  /\ Split
  /\ call.text = <<" ", "a", ".", " ", "VT">>
  /\ ret.sentences = <<[off |-> 1, text |-> <<"a", ".">>]>>

\* ---- C34
\* the positions of the text where a word delimited by whitespace begins
WordStarts(text) ==
  {k \in 1..Len(text) :
     /\ text[k] \notin UnicodeWhitespace
     /\ k = 1 \/ text[k - 1] \in UnicodeWhitespace}

NoUsableRows == \A k \in 1..Len(call.results) : UsableRows(call.results[k].c.tsv_content) = {}

\* C34: in the timings that stitch_sentences returns word_index increases
\* strictly, so no word is timed twice or in two sentences; when no sentence
\* has a usable alignment row there is exactly one entry for each
\* whitespace-delimited word of the whole text, numbered 0..n-1 without gaps.
C34_WordIndexIncreasing ==
  Stitched =>
    /\ \A i, j \in 1..Len(ret.v.timings) :
         i < j => ret.v.timings[i].word_index < ret.v.timings[j].word_index
    /\ NoUsableRows =>
         /\ Len(ret.v.timings) = Cardinality(WordStarts(call.text))
         /\ \A i \in 1..Len(ret.v.timings) :
              /\ ret.v.timings[i].word_index = i - 1
              /\ ret.v.timings[i].char_offset + 1 \in WordStarts(call.text)

\* "a. b a. a." without any alignment: four words in three sentences
C34_Witness ==
  /\ Stitched
  /\ call.text = T_THREE
  /\ NoUsableRows
  /\ Len(ret.v.timings) = 4
  /\ ret.v.timings[4].word_index = 3 /\ ret.v.timings[4].char_offset = 8

\* the two words of one sentence, parted by U+000B, are both timed
WordsPartedByVtTimed ==
  /\ Stitched
  /\ call.text = T_VT
  /\ NoUsableRows
  /\ Len(ret.v.timings) = 2
  /\ ret.v.timings[2].char_offset = 3

\* ---- C35
\* a request served from the bundle that an export wrote whole
Served == call.fn = "stitch_sentences" /\ ret.fn = "served"

BundleWritten == ret.files.wav.exists /\ ret.files.timings.exists

\* C35: serving a text from the bundle that export_audio wrote is the same as
\* synthesizing it directly from the state the export started in: the same
\* WordBoundary events and an AudioReady with the same WAV bytes and the same
\* duration_ms; the duration recomputed from the data chunk and the header's
\* sample rate is the stitched duration.
C35_BundleEqualsDirect ==
  (Served /\ BundleWritten) =>
    /\ ret.hit
    /\ ret.served.outcome = ret.outcome
    /\ ret.served.events = ret.events

SameRates == \A k \in 1..Len(call.results) :
               call.results[k].c.sample_rate = call.results[1].c.sample_rate

\* what holds: the events differ in nothing but the duration of AudioReady,
\* and not at all when the sentences share one sample rate
SameButDuration(a, b) ==
  /\ Len(a) = Len(b)
  /\ \A i \in 1..Len(a) : [a[i] EXCEPT !.duration_ms = RatZero]
                            = [b[i] EXCEPT !.duration_ms = RatZero]

BundleEqualsDirectButDuration ==
  (Served /\ BundleWritten) =>
    /\ ret.hit
    /\ ret.served.outcome = ret.outcome
    /\ SameButDuration(ret.served.events, ret.events)
    /\ SameRates => ret.served.events = ret.events

\* without both files the lookup misses
HalfBundleMisses == (Served /\ ~BundleWritten) => ~ret.hit

\* "a. a." with 2 bytes at 24000 Hz and 2 bytes at 48000 Hz: 1/16 ms when
\* stitched, 1/12 ms when read back from the bundle
DurationDiffers ==
  /\ Served /\ BundleWritten
  /\ call.text = T_REPEAT
  /\ call.results[1].c.pcm = PCM_A /\ call.results[1].c.sample_rate = ENGINE_SAMPLE_RATE
  /\ call.results[2].c.pcm = PCM_A /\ call.results[2].c.sample_rate = 2 * ENGINE_SAMPLE_RATE
  /\ ret.events[Len(ret.events)].duration_ms = Rat(1, 16)
  /\ ret.served.events[Len(ret.served.events)].duration_ms = Rat(1, 12)

\* ---- C36
\* the entry that a complete cache_write left: the one of an earlier run in a
\* warm cache, or what a writer of this run passed to cache_write
CompleteEntries ==
  {workers[w].c : w \in {x \in Workers : Writer(x)}}
    \cup (IF cache_hit(WarmCache[RaceKey]).some THEN {cache_hit(WarmCache[RaceKey]).c} ELSE {})

\* C36: a cache_hit that runs while another request writes the same key
\* returns a miss or the complete triple of one cache_write call, never a
\* torn entry.
C36_NoTornEntry ==
  \A v \in Workers : workers[v].hit => workers[v].c \in CompleteEntries

\* What does hold: the PCM and the sample rate of a hit are those of one
\* complete entry, and its alignment is that of a complete entry or empty.
HitFieldsFromEntries ==
  \A v \in Workers :
    workers[v].hit =>
      /\ \E e \in CompleteEntries : workers[v].c.pcm = e.pcm
      /\ \E e \in CompleteEntries : workers[v].c.sample_rate = e.sample_rate
      /\ workers[v].c.tsv_content = <<>>
           \/ \E e \in CompleteEntries : workers[v].c.tsv_content = e.tsv_content

\* request 1 wrote the fallback voice's PCM and sample rate and has its
\* alignment still to write; request 2 got a hit with that PCM and no alignment
TornEntryRead ==
  /\ workers[1].pc = "cache_write" /\ workers[1].n = 2
  /\ workers[1].c = CachedSentence(PCM_B, ENGINE_SAMPLE_RATE, TSV_ROWS)
  /\ workers[2].hit
  /\ workers[2].c = CachedSentence(PCM_B, ENGINE_SAMPLE_RATE, <<>>)

\* ---- C37
\* the engine invocations of the running request, and its cache lookups, as
\* positions in `ops`
EngineOps == {i \in 1..Len(ops) : ops[i].op \in {DEFAULT_KOKORO_VOICE, FALLBACK_KOKORO_VOICE}}

Lookups == {i \in 1..Len(ops) : ops[i].op = "cache_hit"}

\* every cache write of the running request took effect
CacheWritesOk ==
  \A i \in 1..Len(ops) : ops[i].op \in {"write_pcm", "write_meta", "write_tsv"} => ops[i].ok

\* C37: within one request whose cache writes succeed the engine is invoked
\* for one occurrence of a sentence text at most: the first occurrence is
\* synthesized and written, each later occurrence is a cache hit with the
\* same PCM and alignment.
C37_SynthesizedOnce ==
  (pc \in {"sentences", "export", "done"} /\ CacheWritesOk) =>
    /\ \A i, j \in EngineOps :
         ops[i].key = ops[j].key => ops[i].text = ops[j].text /\ ops[i].sent = ops[j].sent
    /\ \A i \in EngineOps, j \in Lookups : (i < j /\ ops[j].key = ops[i].key) => ops[j].ok
    /\ \A a, b \in 1..Len(results) :
         sentences[a].text = sentences[b].text => results[a].c = results[b].c

\* "a. a.": the first "a." ran the engine (the default voice failed, the
\* fallback voice gave audio and alignment), the second was a cache hit
C37_Witness ==
  /\ pc = "sentences" /\ CacheWritesOk
  /\ CurrentText = T_REPEAT
  /\ Len(results) = 2
  /\ results[1].c = CachedSentence(PCM_B, ENGINE_SAMPLE_RATE, TSV_ROWS)
  /\ results[2].c = results[1].c
  /\ Cardinality(EngineOps) = 2
  /\ \E j \in Lookups : ops[j].sent = 1 /\ ops[j].ok

\* ---- C38
\* a synthesize request that was given a bundle directory has ended
BundleRequestDone == pc = "done" /\ req.kind = "synthesize" /\ req.bundle_path

\* the request went on with the sentence pipeline after a bundle miss
ContinuedAfterMiss ==
  /\ Len(ops) >= 2
  /\ ops[1].op = "bundle_hit" /\ ~ops[1].ok
  /\ ops[2].op = "split"

\* the request was answered from the bundle alone, with every row and the audio
ServedCompletely ==
  /\ Len(ops) = 1
  /\ ops[1].op = "bundle_hit" /\ ops[1].ok
  /\ outcome = "ok"
  /\ CompleteStream(events)
  /\ Len(events) = 1 + Len(bundle_hit(bundle[hash_text(CurrentText)]).timings)

\* C38: whatever the two bundle files of the text hold, a synthesize request
\* serves the bundle completely or treats it as a miss and goes on with the
\* sentences; it never ends abnormally, and never with WordBoundary events
\* that no AudioReady closes.
C38_ServedOrMissed ==
  BundleRequestDone =>
    /\ ServedCompletely \/ ContinuedAfterMiss
    /\ outcome \in {"ok", "err"}
    /\ events # <<>> => events[Len(events)].event = "AudioReady"

\* every row of the text's timings file has its char_offset within the text
OffsetsWithinText ==
  \A i \in 1..Len(bundle[hash_text(CurrentText)].timings.content) :
    LET row == bundle[hash_text(CurrentText)].timings.content[i]
    IN (Len(row) >= 4 /\ IsUsize(row[2])) => row[2].n <= Len(CurrentText)

\* What does hold: the same, for the bundle files whose offsets lie within
\* the text; a missing file, an empty WAV file and a field that is no number
\* make a miss, a row of fewer than four fields is left out.
ServedOrMissedWithinText ==
  (BundleRequestDone /\ OffsetsWithinText) =>
    /\ ServedCompletely \/ ContinuedAfterMiss
    /\ outcome \in {"ok", "err"}
    /\ events # <<>> => events[Len(events)].event = "AudioReady"
    /\ (~bundle[hash_text(CurrentText)].wav.exists
          \/ ~bundle[hash_text(CurrentText)].timings.exists
          \/ bundle[hash_text(CurrentText)].wav.content = <<>>
          \/ \E i \in 1..Len(bundle[hash_text(CurrentText)].timings.content) :
               /\ Len(bundle[hash_text(CurrentText)].timings.content[i]) >= 4
               /\ \E f \in 1..4 : ~IsRat(bundle[hash_text(CurrentText)].timings.content[i][f]))
         => ContinuedAfterMiss

\* "a b. a." with a timings row at offset 8: the WordBoundary of row 0 was
\* sent, then the request ended without Ok, Err or AudioReady
AbortedAfterWordBoundary ==
  /\ BundleRequestDone
  /\ CurrentText = T_TWO
  /\ outcome = "panic"
  /\ Len(events) = 1 /\ events[1].event = "WordBoundary"

\* a row of two fields before a row of four: the bundle is served with one row
ShortRowLeftOut ==
  /\ BundleRequestDone /\ ServedCompletely
  /\ Len(bundle[hash_text(CurrentText)].timings.content) = 2
  /\ Len(events) = 2

\* ---- C39
\* the iterations of the chunk walk over `b` from `offset` on: where each one
\* reads its header, the bounds of its chunk, and the offset it leaves
RECURSIVE ChunkWalk(_, _)
ChunkIteration(b, offset, chunk_size, chunk_end) ==
  <<[offset |-> offset, id |-> Slice(b, offset, offset + 4), chunk_size |-> chunk_size,
     chunk_start |-> offset + 8, chunk_end |-> chunk_end,
     next |-> NextOffset(chunk_end, chunk_size)]>>
    \o ChunkWalk(b, NextOffset(chunk_end, chunk_size))

ChunkWalk(b, offset) ==
  IF offset + 8 > Len(b) THEN <<>>
  ELSE ChunkIteration(b, offset, ReadU32(b, offset + 4),
                      ChunkEnd(b, offset + 8, ReadU32(b, offset + 4)))

\* the walk of the file that was decoded; a file without the 12 bytes of the
\* RIFF header is not walked
DecodedWalk == IF Len(call.wav_bytes) < 12 THEN <<>> ELSE ChunkWalk(call.wav_bytes, 12)

\* the bytes that iteration `it` reads lie in the buffer: the 8 bytes of the
\* header, the 16 bytes of a fmt chunk that is accepted, the slice of a data chunk
ReadsWithin(b, it) ==
  /\ it.offset >= 0 /\ it.offset + 8 <= Len(b)
  /\ it.chunk_start <= it.chunk_end /\ it.chunk_end <= Len(b)
  /\ (it.id = FMT /\ ~U32Lt(it.chunk_size, 16) /\ it.chunk_end >= it.chunk_start + 16)
       => it.chunk_start + 16 <= Len(b)

\* C39: wav_to_int16_pcm is total: on every buffer the chunk walk ends,
\* because each iteration moves the offset on by 8 bytes or more; no byte
\* outside the buffer is read; the call returns Ok with a PCM buffer that is
\* not empty and of even length, or Err.
C39_Total ==
  (call.fn = "wav_to_int16_pcm" /\ ret.fn = "wav_to_int16_pcm") =>
    /\ \A i \in 1..Len(DecodedWalk) :
         /\ DecodedWalk[i].next >= DecodedWalk[i].offset + 8
         /\ ReadsWithin(call.wav_bytes, DecodedWalk[i])
    /\ 8 * Len(DecodedWalk) <= Len(call.wav_bytes)
    /\ ~ret.panicked
    /\ IF ret.first.ok
       THEN Len(ret.first.pcm) > 0 /\ Len(ret.first.pcm) % 2 = 0
       ELSE ret.first.err # "" /\ ret.first.pcm = <<>>

\* an unknown chunk that declares 2^32 - 1 bytes ends the walk after one
\* iteration, one byte past the buffer, and the file has no fmt chunk
C39_Witness ==
  /\ call.fn = "wav_to_int16_pcm" /\ ret.fn = "wav_to_int16_pcm"
  /\ call.shape = "odd"
  /\ Len(DecodedWalk) = 1
  /\ DecodedWalk[1].chunk_end = Len(call.wav_bytes)
  /\ DecodedWalk[1].next = Len(call.wav_bytes) + 1
  /\ ~ret.first.ok

\* of two data chunks the last is decoded, and 7 stray bytes are no chunk
LastDataChunkDecoded ==
  /\ call.fn = "wav_to_int16_pcm" /\ ret.fn = "wav_to_int16_pcm"
  /\ call.shape = "odd"
  /\ Len(DecodedWalk) = 3
  /\ ret.first.ok /\ ret.first.pcm = <<2, 0, 3, 0>>

====
